---- MODULE Spec2Model ----
(***************************************************************************)
(* Model of the expiry-date manager: the ingredient data model             *)
(* (js/dataModel.js), the two storage back ends of js/storage.js (the      *)
(* localStorage one and the Firestore one with its snapshot-fed cache),    *)
(* the Firestore wrapper (firebase.js) and the display filter.             *)
(*                                                                         *)
(* Representation of JavaScript values:                                    *)
(*   - a string is a sequence of one-character strings; "" is << >>;       *)
(*   - a date string is a sequence of integers: << >> is "", <<n>> is the  *)
(*     ISO date "YYYY-MM-DD" of day number n (days since the epoch), any   *)
(*     longer sequence is text that Date cannot parse;                     *)
(*   - an instant (Date value) is a number of hours since the epoch, or    *)
(*     NaN; an ISO timestamp string (createdAt, updatedAt) is the instant  *)
(*     it denotes;                                                         *)
(*   - an object is a function from field names to values; a field that   *)
(*     is undefined is a field outside the DOMAIN;                         *)
(*   - a status ('expired', ...) is a TLA+ string, "" for the empty value  *)
(*     of the status filter.                                               *)
(***************************************************************************)
EXTENDS Integers, Sequences, FiniteSets, TLC

VARIABLES
    now,                    \* the wall clock, in hours since the epoch
    tz,                     \* the local time zone's offset from UTC, in hours
    call,                   \* the last call of a pure function: its inputs and result
    backend,                \* which storage.js is loaded: "localStorage" or "firestore"
    uuidCount,              \* how many ids generateUUID has handed out
    localStorage,           \* localStorage[STORAGE_KEY]: the saved array
    store,                  \* the Firestore collection: document id -> document data
    docCount,               \* how many document ids the store has assigned
    pending,                \* write requests sent to the store, not yet settled (FIFO)
    clearReads,             \* clearAllIngredientsFromFirestore calls awaiting their get() (FIFO)
    snapshots,              \* snapshots on their way to the listener (FIFO)
    ingredientsCache,       \* storage.js: let ingredientsCache
    isFirestoreInitialized, \* storage.js: let isFirestoreInitialized
    listeners,              \* number of onSnapshot listeners registered
    writes,                 \* number of storage operations issued so far
    last,                   \* the last storage operation: what was asked, what it returned
    applied,                \* history: the last request settled, with the record before and after
    lastDelivered,          \* history: the snapshot handed to the callback most recently
    shown,                  \* the toasts showNotification has displayed
    settled,                \* history: operation number -> how the store settled it
    notifiedSinceWrite,     \* history: a snapshot was delivered after the last operation returned
    currentEditingId,       \* ingredientForm.js: let currentEditingId (<< >> for null)
    modalActive,            \* #ingredientModal has the class 'active': the form is open
    formAction,             \* history: the last form handler that ran, and what it did
    lastOpening,            \* history: the last handler that opened or closed the form
    sent,                   \* history: the data handed to addIngredient / updateIngredient
    msClock,                \* time on the page, in units of 100 ms
    timeout,                \* debounce: let timeout, the id of the timer set last (0: undefined)
    timers,                 \* the timers setTimeout has set that were neither cleared nor run
    wrapperCalls,           \* history: the calls of the debounced function
    invocations,            \* history: the invocations of the function debounce wraps
    cacheStorage,           \* the origin's CacheStorage: cache name -> request -> response
    workerState,            \* the service worker: "installing", "installed", "activated"
    fetching,               \* fetch events in flight: awaiting the network, or their cache.put
    responses,              \* history: what respondWith gave the page for each fetch event
    started                 \* history: the start-up callers of initializeFirestoreSync that ran

vars == <<now, tz, call, backend, uuidCount, localStorage, store, docCount, pending,
          clearReads, snapshots, ingredientsCache, isFirestoreInitialized, listeners,
          writes, last, applied, lastDelivered, shown, settled, notifiedSinceWrite,
          currentEditingId, modalActive, formAction, lastOpening, sent, msClock,
          timeout, timers,
          wrapperCalls, invocations, cacheStorage, workerState, fetching, responses,
          started>>

formVars == <<currentEditingId, modalActive, formAction, lastOpening, sent>>

debounceVars == <<msClock, timeout, timers, wrapperCalls, invocations>>

workerVars == <<cacheStorage, workerState, fetching, responses>>

pageVars == <<formVars, debounceVars, workerVars, started>>

storageVars == <<backend, uuidCount, localStorage, store, docCount, pending,
                 clearReads, snapshots, ingredientsCache, isFirestoreInitialized,
                 listeners, writes, last, applied, lastDelivered, shown, settled,
                 notifiedSinceWrite>>

-----------------------------------------------------------------------------
(* Bounds of the model *)

MaxDays == 10           \* expiration dates lie within MaxDays of today
MaxListLen == 2         \* lists handed to filterIngredients
MaxTime == 1            \* the clock of the storage model runs from 0 to MaxTime
MaxWrites == 2          \* storage operations issued in one run
MaxSortLen == 3         \* lists handed to sortIngredients
MaxClock == 7           \* the clock of the debounce model runs from 0 to MaxClock
MaxCalls == 3           \* calls of the debounced function in one run
MaxFetches == 3         \* fetch events the service worker handles in one run

(* Program constants *)

HoursPerDay == 24
MaxNameLength == 100
TIMELINE_DAYS == 90
SearchWait == 3          \* 300 ms, in the 100 ms units of msClock

-----------------------------------------------------------------------------
(* JavaScript values *)

\* A number that may be NaN: << >> is NaN, <<n>> is the number n.
NaN == << >>

Num(n) == << n >>

IsNaN(x) == x = NaN

\* x < y and x <= y on such numbers: false as soon as either side is NaN
Less(x, y) == ~IsNaN(x) /\ ~IsNaN(y) /\ x[1] < y[1]

LessEq(x, y) == ~IsNaN(x) /\ ~IsNaN(y) /\ x[1] <= y[1]

\* obj.field, with undefined read as the empty string: every use below is
\* `obj.field || ''` or a truthiness test, which do not tell the two apart.
Get(obj, f) == IF f \in DOMAIN obj THEN obj[f] ELSE << >>

Truthy(s) == s # << >>

\* { ...a, ...b }
Spread(a, b) ==
    [f \in DOMAIN a \cup DOMAIN b |-> IF f \in DOMAIN b THEN b[f] ELSE a[f]]

\* const { id, ...data } = obj
Without(obj, f) == [g \in DOMAIN obj \ {f} |-> obj[g]]

LowerChar(c) == IF c = "A" THEN "a" ELSE IF c = "B" THEN "b" ELSE c

ToLowerCase(s) == [i \in 1..Len(s) |-> LowerChar(s[i])]

RECURSIVE TrimStart(_)
TrimStart(s) == IF s # << >> /\ Head(s) = " " THEN TrimStart(Tail(s)) ELSE s

RECURSIVE TrimEnd(_)
TrimEnd(s) ==
    IF s # << >> /\ s[Len(s)] = " " THEN TrimEnd(SubSeq(s, 1, Len(s) - 1)) ELSE s

Trim(s) == TrimEnd(TrimStart(s))

\* s.includes(q)
Includes(s, q) ==
    \E i \in 0..(Len(s) - Len(q)) : SubSeq(s, i + 1, i + Len(q)) = q

\* new Date(dateString): UTC midnight of the day, or an invalid Date (NaN)
ParseDate(s) == IF Len(s) = 1 THEN Num(s[1] * HoursPerDay) ELSE NaN

\* date.toISOString().split('T')[0]: the UTC calendar day of an instant
ISODate(t) == << t \div HoursPerDay >>

\* date.setHours(0, 0, 0, 0): midnight, local time, of the instant's local day
SetHoursZero(d, zone) ==
    IF IsNaN(d) THEN NaN
    ELSE Num(((d[1] + zone) \div HoursPerDay) * HoursPerDay - zone)

\* Math.ceil(a / b) for b > 0
CeilDiv(a, b) == -((-a) \div b)

-----------------------------------------------------------------------------
(* js/dataModel.js *)

getTodayString(t) == ISODate(t)

calculateDaysRemaining(expirationDate, t, zone) ==
    LET today == SetHoursZero(Num(t), zone)
        expDate == SetHoursZero(ParseDate(expirationDate), zone)
    IN  IF IsNaN(expDate) THEN NaN
        ELSE Num(CeilDiv(expDate[1] - today[1], HoursPerDay))

\* a slip in the second threshold
StatusOfDaysOffByOne(daysRemaining) ==
    IF Less(daysRemaining, Num(0)) THEN "expired"
    ELSE IF Less(daysRemaining, Num(3)) THEN "critical"
    ELSE IF LessEq(daysRemaining, Num(7)) THEN "warning"
    ELSE "fresh"

\* the chain of comparisons of getExpirationStatus
StatusOfDays(daysRemaining) ==
    IF Less(daysRemaining, Num(0)) THEN "expired"
    ELSE IF LessEq(daysRemaining, Num(3)) THEN "critical"
    ELSE IF LessEq(daysRemaining, Num(7)) THEN "warning"
    ELSE "fresh"

getExpirationStatus(ingredient, t, zone) ==
    StatusOfDays(calculateDaysRemaining(Get(ingredient, "expirationDate"), t, zone))

\* generateUUID: the n-th identifier it hands out. The identifiers are random
\* 122-bit strings; the model takes two of them to be different.
generateUUID(n) == << "uuid", n >>

createIngredient(data, uuid, t) ==
    [id             |-> uuid,
     name           |-> Trim(Get(data, "name")),
     category       |-> Get(data, "category"),
     purchaseDate   |-> IF Truthy(Get(data, "purchaseDate"))
                        THEN data.purchaseDate ELSE getTodayString(t),
     expirationDate |-> Get(data, "expirationDate"),
     quantity       |-> Trim(Get(data, "quantity")),
     location       |-> Trim(Get(data, "location")),
     notes          |-> Trim(Get(data, "notes")),
     createdAt      |-> t,
     updatedAt      |-> t]

\* the errors object of validateIngredient: field -> message
ValidationErrors(data) ==
    LET name     == Get(data, "name")
        category == Get(data, "category")
        exp      == Get(data, "expirationDate")
        pur      == Get(data, "purchaseDate")
        expDate  == ParseDate(exp)
        purDate  == ParseDate(pur)
        nameErr  == IF ~Truthy(name) \/ Len(Trim(name)) = 0 THEN "required"
                    ELSE IF Len(Trim(name)) > MaxNameLength THEN "tooLong"
                    ELSE "none"
        catErr   == IF ~Truthy(category) \/ Len(Trim(category)) = 0 THEN "required"
                    ELSE "none"
        expErr   == IF ~Truthy(exp) THEN "required"
                    ELSE IF IsNaN(expDate) THEN "invalidDate"
                    ELSE "none"
        purErr   == IF ~Truthy(pur) THEN "none"
                    ELSE IF Truthy(exp) /\ Less(expDate, purDate) THEN "afterExpiration"
                    ELSE IF IsNaN(purDate) THEN "invalidDate"
                    ELSE "none"
        msg      == [name |-> nameErr, category |-> catErr,
                     expirationDate |-> expErr, purchaseDate |-> purErr]
    IN  [f \in {g \in DOMAIN msg : msg[g] # "none"} |-> msg[f]]

\* valid computed without looking at the purchaseDate entry
validateIngredientIgnoringPurchase(data) ==
    LET errors == ValidationErrors(data)
    IN  [valid |-> DOMAIN errors \subseteq {"purchaseDate"}, errors |-> errors]

validateIngredient(data) ==
    LET errors == ValidationErrors(data)
    IN  [valid |-> DOMAIN errors = {}, errors |-> errors]

\* A field value that is not a string, as JSON.parse can produce one: a
\* non-zero number. It is truthy and has no trim method.
NumberValue == << "number" >>

HasTrim(v) == v # NumberValue

\* validateIngredient raises a TypeError where it reads a property of null
\* (data.name, line 46) or calls trim on a truthy value that has none
\* (data.name.trim(), line 46; data.category.trim(), line 53)
ValidateThrows(data) ==
    \/ data = [null |-> TRUE]
    \/ Truthy(Get(data, "name")) /\ ~HasTrim(Get(data, "name"))
    \/ Truthy(Get(data, "category")) /\ ~HasTrim(Get(data, "category"))

\* a call of validateIngredient: the value it returns, or the fact that it threw
validateIngredientCall(data) ==
    IF ValidateThrows(data) THEN [thrown |-> TRUE]
    ELSE [thrown |-> FALSE, value |-> validateIngredient(data)]

\* the UTF-16 code unit of a character, which is what < compares on strings
CharCode(c) ==
    CASE c = " " -> 32 [] c = "A" -> 65 [] c = "B" -> 66
      [] c = "a" -> 97 [] c = "b" -> 98 [] c = "c" -> 99 [] c = "d" -> 100
      [] c = "x" -> 120 [] c = "y" -> 121 [] c = "z" -> 122

\* a < b on strings
RECURSIVE StringLess(_, _)
StringLess(a, b) ==
    IF b = << >> THEN FALSE
    ELSE IF a = << >> THEN TRUE
    ELSE IF CharCode(Head(a)) # CharCode(Head(b))
         THEN CharCode(Head(a)) < CharCode(Head(b))
    ELSE StringLess(Tail(a), Tail(b))

\* the day '1900-01-01' stands for, counted like the other days of the model
\* (a day earlier than every purchase date)
Day1900 == -1000

\* const statusOrder = { 'expired': 0, 'critical': 1, 'warning': 2, 'fresh': 3 }
statusOrder(status) ==
    CASE status = "expired" -> 0 [] status = "critical" -> 1
      [] status = "warning" -> 2 [] status = "fresh" -> 3

\* new Date(a.purchaseDate || '1900-01-01')
PurchaseKey(a) ==
    ParseDate(IF Truthy(Get(a, "purchaseDate")) THEN a.purchaseDate
              ELSE << Day1900 >>)

\* compareA < compareB with the text keys compared as they are spelled
SortKeyLessCaseSensitive(a, b, sortBy, t, zone) ==
    CASE sortBy = "name" -> StringLess(a.name, b.name)
      [] sortBy = "expiration" ->
             Less(ParseDate(a.expirationDate), ParseDate(b.expirationDate))
      [] sortBy = "status" ->
             statusOrder(getExpirationStatus(a, t, zone))
                 < statusOrder(getExpirationStatus(b, t, zone))
      [] sortBy = "category" -> StringLess(a.category, b.category)
      [] sortBy = "purchase" -> Less(PurchaseKey(a), PurchaseKey(b))
      [] OTHER -> FALSE

\* compareA < compareB for the keys the switch of the comparator selects
SortKeyLess(a, b, sortBy, t, zone) ==
    CASE sortBy = "name" -> StringLess(ToLowerCase(a.name), ToLowerCase(b.name))
      [] sortBy = "expiration" ->
             Less(ParseDate(a.expirationDate), ParseDate(b.expirationDate))
      [] sortBy = "status" ->
             statusOrder(getExpirationStatus(a, t, zone))
                 < statusOrder(getExpirationStatus(b, t, zone))
      [] sortBy = "category" ->
             StringLess(ToLowerCase(a.category), ToLowerCase(b.category))
      [] sortBy = "purchase" -> Less(PurchaseKey(a), PurchaseKey(b))
      [] OTHER -> FALSE

\* the comparator handed to sort: negative, zero or positive
CompareIngredients(a, b, sortBy, order, t, zone) ==
    IF SortKeyLess(a, b, sortBy, t, zone) THEN (IF order = "asc" THEN -1 ELSE 1)
    ELSE IF SortKeyLess(b, a, sortBy, t, zone) THEN (IF order = "asc" THEN 1 ELSE -1)
    ELSE 0

\* Array.prototype.sort with that comparator: a stable sort (ECMAScript 2019).
\* Each element is put behind the last element that does not compare greater.
RECURSIVE InsertSorted(_, _, _, _, _, _)
InsertSorted(sorted, x, sortBy, order, t, zone) ==
    IF sorted = << >> THEN << x >>
    ELSE IF CompareIngredients(sorted[Len(sorted)], x, sortBy, order, t, zone) > 0
         THEN Append(InsertSorted(SubSeq(sorted, 1, Len(sorted) - 1), x,
                                  sortBy, order, t, zone),
                     sorted[Len(sorted)])
    ELSE Append(sorted, x)

RECURSIVE ArraySort(_, _, _, _, _)
ArraySort(array, sortBy, order, t, zone) ==
    IF array = << >> THEN << >>
    ELSE InsertSorted(ArraySort(SubSeq(array, 1, Len(array) - 1), sortBy, order, t, zone),
                      array[Len(array)], sortBy, order, t, zone)

Reverse(seq) == [i \in 1..Len(seq) |-> seq[Len(seq) + 1 - i]]

\* sortIngredients with 'desc' obtained by reversing the ascending result
sortIngredientsReversing(ingredients, sortBy, order, t, zone) ==
    IF order = "asc" THEN ArraySort(ingredients, sortBy, "asc", t, zone)
    ELSE Reverse(ArraySort(ingredients, sortBy, "asc", t, zone))

\* sortIngredients: const sorted = [...ingredients]; sorted.sort(...); return sorted
sortIngredients(ingredients, sortBy, order, t, zone) ==
    ArraySort(ingredients, sortBy, order, t, zone)

\* the search predicate of filterIngredients
FilterSearchMatch(ing, query) ==
    \/ Includes(ToLowerCase(Get(ing, "name")), query)
    \/ Includes(ToLowerCase(Get(ing, "category")), query)
    \/ Truthy(Get(ing, "notes")) /\ Includes(ToLowerCase(Get(ing, "notes")), query)

filterIngredients(ingredients, filters, t, zone) ==
    LET query == Trim(ToLowerCase(Get(filters, "search")))
        f1 == IF Truthy(Get(filters, "search"))
              THEN SelectSeq(ingredients, LAMBDA ing : FilterSearchMatch(ing, query))
              ELSE ingredients
        f2 == IF Truthy(Get(filters, "category"))
              THEN SelectSeq(f1, LAMBDA ing : Get(ing, "category") = filters.category)
              ELSE f1
        f3 == IF "status" \in DOMAIN filters /\ filters.status # ""
              THEN SelectSeq(f2, LAMBDA ing :
                                     getExpirationStatus(ing, t, zone) = filters.status)
              ELSE f2
        f4 == IF Truthy(Get(filters, "startDate"))
              THEN SelectSeq(f3, LAMBDA ing :
                       LessEq(ParseDate(filters.startDate),
                              ParseDate(Get(ing, "expirationDate"))))
              ELSE f3
        f5 == IF Truthy(Get(filters, "endDate"))
              THEN SelectSeq(f4, LAMBDA ing :
                       LessEq(ParseDate(Get(ing, "expirationDate")),
                              ParseDate(filters.endDate)))
              ELSE f4
    IN  f5

\* the names an object literal inherits from Object.prototype ('constructor',
\* 'toString', ...): reading one of them from {} yields a function
Constructor == << "c", "o", "n", "s", "t", "r", "u", "c", "t", "o", "r" >>

ObjectPrototypeKeys == {Constructor}

\* !value for a count: undefined, 0 and NaN are falsy
Falsy(v) == IsNaN(v) \/ v = Num(0)

\* value++
Increment(v) == IF IsNaN(v) THEN NaN ELSE Num(v[1] + 1)

\* the body of the forEach on byCategory: the own properties of byCategory are
\* the DOMAIN; a key that is not an own property reads as the inherited
\* function (truthy, NaN as a number) or as undefined
CountCategory(byCategory, category) ==
    LET read == IF category \in DOMAIN byCategory
                THEN [falsy |-> Falsy(byCategory[category]),
                      number |-> byCategory[category]]
                ELSE IF category \in ObjectPrototypeKeys
                THEN [falsy |-> FALSE, number |-> NaN]
                ELSE [falsy |-> TRUE, number |-> NaN]
        start == IF read.falsy THEN Num(0) ELSE read.number
    IN  (category :> Increment(start)) @@ byCategory

RECURSIVE TallyIngredients(_, _, _, _)
TallyIngredients(stats, ingredients, t, zone) ==
    IF ingredients = << >> THEN stats
    ELSE LET ing == Head(ingredients)
             status == getExpirationStatus(ing, t, zone)
             counted == [stats EXCEPT ![status] = @ + 1]
         IN  TallyIngredients(
                 [counted EXCEPT !.byCategory =
                                     CountCategory(@, Get(ing, "category"))],
                 Tail(ingredients), t, zone)

getIngredientStats(ingredients, t, zone) ==
    TallyIngredients([total |-> Len(ingredients), expired |-> 0, critical |-> 0,
                      warning |-> 0, fresh |-> 0, byCategory |-> << >>],
                     ingredients, t, zone)

-----------------------------------------------------------------------------
(* js/search.js *)

searchIngredients(ingredients, query) ==
    IF ~Truthy(query) \/ Len(Trim(query)) = 0 THEN ingredients
    ELSE LET lowerQuery == Trim(ToLowerCase(query))
         IN  SelectSeq(ingredients, LAMBDA ing :
                 \/ Includes(ToLowerCase(Get(ing, "name")), lowerQuery)
                 \/ Includes(ToLowerCase(Get(ing, "category")), lowerQuery)
                 \/ Truthy(Get(ing, "notes"))
                        /\ Includes(ToLowerCase(Get(ing, "notes")), lowerQuery)
                 \/ Truthy(Get(ing, "location"))
                        /\ Includes(ToLowerCase(Get(ing, "location")), lowerQuery))

-----------------------------------------------------------------------------
(* ganttChart.js *)

\* refreshGanttDisplay: the list it hands to renderGanttChart, given what
\* loadIngredients returned and the values of the three filter inputs
\* (<< >> when it shows the "no results" message instead)
refreshGanttDisplay(loaded, searchQuery, categoryFilter, statusFilter, t, zone) ==
    IF Truthy(searchQuery) \/ Truthy(categoryFilter) \/ statusFilter # ""
    THEN filterIngredients(loaded,
                           [search |-> searchQuery, category |-> categoryFilter,
                            status |-> statusFilter], t, zone)
    ELSE loaded

\* Math.floor(a / b) for b > 0, NaN for a NaN
FloorDiv(a, b) == IF IsNaN(a) THEN NaN ELSE Num(a[1] \div b)

\* a - b on time values
Minus(a, b) == IF IsNaN(a) \/ IsNaN(b) THEN NaN ELSE Num(a[1] - b[1])

\* Math.max and Math.min: NaN when an argument is NaN
MathMax(a, b) == IF IsNaN(a) \/ IsNaN(b) THEN NaN ELSE IF a[1] >= b[1] THEN a ELSE b

MathMin(a, b) == IF IsNaN(a) \/ IsNaN(b) THEN NaN ELSE IF a[1] <= b[1] THEN a ELSE b

\* A percentage is kept exactly, as a number of TIMELINE_DAYS-ths of one
\* percent: (days / TIMELINE_DAYS) * 100 is days * 100 of these units
PercentOfDays(days) == IF IsNaN(days) THEN NaN ELSE Num(days[1] * 100)

Percent(n) == Num(n * TIMELINE_DAYS)

\* the width calculateBarPosition returns
BarWidth(widthPercent, leftPercent) ==
    MathMax(Num(0), MathMin(widthPercent, Minus(Percent(100), leftPercent)))

\* the visible flag calculateBarPosition returns
BarVisible(expirationDaysFromToday, daysFromToday) ==
    LessEq(Num(0), expirationDaysFromToday) /\ Less(daysFromToday, Num(TIMELINE_DAYS))

calculateBarPosition(ingredient, t, zone) ==
    LET today == SetHoursZero(Num(t), zone)
        purchaseDate ==
            SetHoursZero(IF Truthy(Get(ingredient, "purchaseDate"))
                         THEN ParseDate(ingredient.purchaseDate)
                         ELSE today, zone)
        expirationDate == SetHoursZero(ParseDate(Get(ingredient, "expirationDate")), zone)
        daysFromToday == FloorDiv(Minus(purchaseDate, today), HoursPerDay)
        leftPercent == MathMax(Num(0), PercentOfDays(daysFromToday))
        duration == FloorDiv(Minus(expirationDate, purchaseDate), HoursPerDay)
        widthPercent == PercentOfDays(duration)
        expirationDaysFromToday ==
            FloorDiv(Minus(expirationDate, today), HoursPerDay)
    IN  [left |-> MathMin(leftPercent, Percent(100)),
         width |-> BarWidth(widthPercent, leftPercent),
         visible |-> BarVisible(expirationDaysFromToday, daysFromToday),
         daysFromToday |-> daysFromToday,
         duration |-> duration]

\* createIngredientRow: whether it adds a bar to the row's timeline column
BarDrawn(position) == position.visible /\ Less(Num(0), position.width)

-----------------------------------------------------------------------------
(* Arrays as objects: which array a list operation returns.  heap is the   *)
(* sequence of the arrays that exist, an array is named by its position.   *)

\* a new array with the given elements: [...list], filter(), JSON.parse()
NewArray(heap, list) == [heap |-> Append(heap, list), ref |-> Len(heap) + 1]

\* loadIngredients handing out the cache itself
LoadIngredientsArrayAliased(heap, cacheRef) == [heap |-> heap, ref |-> cacheRef]

\* loadIngredients: return [...ingredientsCache]
LoadIngredientsArray(heap, cacheRef) == NewArray(heap, heap[cacheRef])

\* sortIngredients: sorted = [...ingredients], sorted in place and returned
SortIngredientsArray(heap, ref, sortBy, order, t, zone) ==
    LET sorted == NewArray(heap, heap[ref])
    IN  [heap |-> [sorted.heap EXCEPT ![sorted.ref] =
                      sortIngredients(sorted.heap[sorted.ref], sortBy, order, t, zone)],
         ref |-> sorted.ref]

\* filterIngredients: filtered = [...ingredients], replaced by the array each
\* filter() call creates
FilterIngredientsArray(heap, ref, filters, t, zone) ==
    NewArray(heap, filterIngredients(heap[ref], filters, t, zone))

\* what a caller can do to an array it holds: push, pop, reverse
ArrayMutations(list, record) ==
    {Append(list, record), Reverse(list)}
        \cup (IF list # << >> THEN {SubSeq(list, 1, Len(list) - 1)} ELSE {})

-----------------------------------------------------------------------------
(* Calls of the pure functions on inputs drawn from bounded sets *)

Today == now \div HoursPerDay

SeqsUpTo(S, n) == UNION {[1..k -> S] : k \in 0..n}

Rep(c, n) == [i \in 1..n |-> c]

Unparseable == << 0, 0 >>

Nows == {100 * HoursPerDay + 1, 100 * HoursPerDay + 22}

TimeZones == {-5, 0, 9}

Idle == [op |-> "idle", seq |-> 0]

NothingApplied ==
    [op |-> "idle", seq |-> 0, time |-> 0, outcome |-> "none",
     before |-> [null |-> TRUE], after |-> [null |-> TRUE]]

\* the identifier the store gives the n-th document it creates
DocId(n) == << "doc", n >>

\* the argument addIngredientToFirestore passes to add()
AddRequestData(ingredient) == Without(ingredient, "id")

FirstForm ==
    [name |-> << "a" >>, category |-> << "c" >>, expirationDate |-> << 5 >>,
     location |-> << >>, notes |-> << >>]

FormInputs ==
    {[name |-> << "b", " " >>, category |-> << "c" >>, expirationDate |-> << 5 >>,
      location |-> << >>, notes |-> << >>]}

EarlierRecord == createIngredient(FirstForm, generateUUID(1), 0)

\* The collection outlives the page: at start-up it holds a record an earlier
\* session created (at time 0, from the first form input).
StorageInit ==
    /\ uuidCount = 1
    /\ localStorage = IF backend = "localStorage" THEN << EarlierRecord >> ELSE << >>
    /\ store = IF backend = "firestore"
               THEN DocId(1) :> AddRequestData(EarlierRecord) ELSE << >>
    /\ docCount = IF backend = "firestore" THEN 1 ELSE 0
    /\ pending = << >>
    /\ clearReads = << >>
    /\ snapshots = << >>
    /\ ingredientsCache = << >>
    /\ isFirestoreInitialized = FALSE
    /\ listeners = 0
    /\ writes = 0
    /\ last = Idle
    /\ applied = NothingApplied
    /\ lastDelivered = << >>
    /\ shown = {}
    /\ settled = << >>
    /\ notifiedSinceWrite = FALSE

\* null, as the value of currentEditingId and of the timer handle
NoValue == << >>

NoFormAction == [handler |-> "none"]

\* ingredientForm.js as loaded: no record is being edited, the modal is closed
FormInit ==
    /\ currentEditingId = NoValue
    /\ modalActive = FALSE
    /\ formAction = NoFormAction
    /\ lastOpening = NoFormAction
    /\ sent = << >>

\* search.js as loaded: debounce has returned the wrapper, no timer is set
DebounceInit ==
    /\ msClock = 0
    /\ timeout = 0
    /\ timers = {}
    /\ wrapperCalls = << >>
    /\ invocations = << >>

CACHE_NAME == "expiry-manager-v1"

\* the cache an earlier version of the worker left behind
OldCacheName == "expiry-manager-v0"

\* a response: the fetch that received it from the network (0: a fetch of an
\* earlier time) and its ok flag
Response(id, ok) == [id |-> id, ok |-> ok]

\* sw.js as evaluated: the handlers are registered, no event was dispatched;
\* the origin holds the cache of the earlier version
WorkerInit ==
    /\ cacheStorage = (OldCacheName :> ("/data" :> Response(0, TRUE)))
    /\ workerState = "installing"
    /\ fetching = {}
    /\ responses = << >>

PageInit == FormInit /\ DebounceInit /\ WorkerInit /\ started = {}

PureInit ==
    /\ now \in Nows
    /\ tz \in TimeZones
    /\ call = Idle
    /\ backend = "firestore"
    /\ StorageInit
    /\ PageInit

ExpirationInputs == {<< Today + d >> : d \in -MaxDays..MaxDays} \cup {Unparseable}

CallGetExpirationStatus ==
    /\ call = Idle
    /\ \E exp \in ExpirationInputs :
          LET ingredient == [expirationDate |-> exp]
          IN  call' = [op |-> "getExpirationStatus",
                       ingredient |-> ingredient,
                       daysRemaining |-> calculateDaysRemaining(exp, now, tz),
                       result |-> getExpirationStatus(ingredient, now, tz)]
    /\ UNCHANGED <<now, tz, storageVars, pageVars>>

NameInputs ==
    {<< >>, << " " >>, << "a" >>, << " ", "a", " " >>,
     Rep("a", MaxNameLength), Rep("a", MaxNameLength + 1),
     << " " >> \o Rep("a", MaxNameLength)}

OptionalDate(S) == {[purchaseDate |-> d] : d \in S} \cup {<< >>}

CreateInputs ==
    {Spread([name |-> n, category |-> c, expirationDate |-> e,
             location |-> << " ", "b" >>, notes |-> << >>], p) :
        n \in NameInputs,
        c \in {<< >>, << "c" >>},
        e \in {<< >>, Unparseable, << Today - 1 >>, << Today >>, << Today + 1 >>,
               << Today + 9 >>},
        p \in OptionalDate({<< Today - 2 >>, << Today + 1 >>, Unparseable})}

CallValidateCreate ==
    /\ call = Idle
    /\ \E data \in CreateInputs :
          LET ingredient == createIngredient(data, generateUUID(1), now)
          IN  call' = [op |-> "validateCreate",
                       data |-> data,
                       ingredient |-> ingredient,
                       result |-> validateIngredient(ingredient)]
    /\ UNCHANGED <<now, tz, storageVars, pageVars>>

\* the items of an imported JSON array, and the objects of the form: every
\* combination of the fields above, records that lack fields, records whose
\* name or category is a number, and null
ValidateInputs ==
    CreateInputs
        \cup {<< >>,
              [name |-> << "a" >>],
              [name |-> << "a" >>, category |-> << "c" >>],
              [name |-> NumberValue, category |-> << "c" >>,
               expirationDate |-> << Today >>],
              [name |-> << "a" >>, category |-> NumberValue,
               expirationDate |-> << Today >>],
              [null |-> TRUE]}

CallValidateIngredient ==
    /\ call = Idle
    /\ \E data \in ValidateInputs :
          call' = [op |-> "validateIngredient",
                   data |-> data,
                   outcome |-> validateIngredientCall(data)]
    /\ UNCHANGED <<now, tz, storageVars, pageVars>>

FilterRecords ==
    {[id |-> 1, name |-> << "A", "b" >>, category |-> << "c" >>,
      notes |-> << >>, location |-> << >>, expirationDate |-> << Today - 1 >>],
     [id |-> 2, name |-> << "x" >>, category |-> << "c" >>,
      notes |-> << "a", "B" >>, location |-> << >>, expirationDate |-> << Today + 1 >>],
     [id |-> 3, name |-> << "x" >>, category |-> << "d" >>,
      notes |-> << >>, location |-> << "a", "b" >>, expirationDate |-> << Today + 5 >>],
     [id |-> 4, name |-> << "y" >>, category |-> << "A", "B" >>,
      expirationDate |-> << Today + 9 >>]}

FilterLists == SeqsUpTo(FilterRecords, MaxListLen)

Queries == {<< >>, << " " >>, << "a", "b" >>, << "A", "B", " " >>, << "x" >>, << "z" >>}

Statuses == {"expired", "critical", "warning", "fresh"}

FilterInputs ==
    [search : Queries,
     category : {<< >>, << "c" >>},
     status : Statuses \cup {""},
     startDate : {<< >>, << Today + 1 >>, Unparseable},
     endDate : {<< >>, << Today + 5 >>}]

CallFilterIngredients ==
    /\ call = Idle
    /\ \E list \in FilterLists, filters \in FilterInputs :
          call' = [op |-> "filterIngredients",
                   ingredients |-> list,
                   filters |-> filters,
                   result |-> filterIngredients(list, filters, now, tz)]
    /\ UNCHANGED <<now, tz, storageVars, pageVars>>

CallRefreshGanttDisplay ==
    /\ call = Idle
    /\ \E loaded \in FilterLists, searchQuery \in Queries,
          categoryFilter \in {<< >>, << "c" >>}, statusFilter \in {"", "expired"} :
          call' = [op |-> "refreshGanttDisplay",
                   loaded |-> loaded,
                   search |-> searchQuery,
                   category |-> categoryFilter,
                   status |-> statusFilter,
                   result |-> refreshGanttDisplay(loaded, searchQuery, categoryFilter,
                                                  statusFilter, now, tz)]
    /\ UNCHANGED <<now, tz, storageVars, pageVars>>

\* the records of the filter calls and one whose category is a name that
\* objects inherit (the JSON import accepts any non-empty category)
StatsRecords ==
    FilterRecords
        \cup {[id |-> 5, name |-> << "z" >>, category |-> Constructor,
               expirationDate |-> << Today + 1 >>]}

StatsLists == SeqsUpTo(StatsRecords, MaxListLen)

CallGetIngredientStats ==
    /\ call = Idle
    /\ \E list \in StatsLists :
          call' = [op |-> "getIngredientStats",
                   ingredients |-> list,
                   result |-> getIngredientStats(list, now, tz)]
    /\ UNCHANGED <<now, tz, storageVars, pageVars>>

\* purchase and expiration days, as offsets from today: around today, around
\* the end of the window and far outside it
BarOffsets ==
    {-TIMELINE_DAYS - MaxDays, -1, 0, 1, MaxDays, TIMELINE_DAYS - 1, TIMELINE_DAYS,
     TIMELINE_DAYS + MaxDays}

BarInputs ==
    {Spread([expirationDate |-> << Today + e >>], p) :
        e \in BarOffsets,
        p \in OptionalDate({<< Today + d >> : d \in BarOffsets})}

CallCalculateBarPosition ==
    /\ call = Idle
    /\ \E ingredient \in BarInputs :
          LET position == calculateBarPosition(ingredient, now, tz)
          IN  call' = [op |-> "calculateBarPosition",
                       ingredient |-> ingredient,
                       result |-> position,
                       drawn |-> BarDrawn(position)]
    /\ UNCHANGED <<now, tz, storageVars, pageVars>>

\* stored records, as the form and the import create them: two of them equal
\* in every sort key but the spelling of the name, one without purchaseDate
SortRecords ==
    {[id |-> 1, name |-> << "B" >>, category |-> << "c" >>,
      purchaseDate |-> << Today - 2 >>, expirationDate |-> << Today + 1 >>],
     [id |-> 2, name |-> << "a" >>, category |-> << "d" >>,
      expirationDate |-> << Today - 1 >>],
     [id |-> 3, name |-> << "b" >>, category |-> << "c" >>,
      purchaseDate |-> << Today - 2 >>, expirationDate |-> << Today + 1 >>],
     [id |-> 4, name |-> << "x" >>, category |-> << "A" >>,
      purchaseDate |-> << Today - 3 >>, expirationDate |-> << Today + 5 >>]}

SortLists == SeqsUpTo(SortRecords, MaxSortLen)

SortKeys == {"name", "category", "purchase", "expiration", "status"}

CallSortIngredients ==
    /\ call = Idle
    /\ \E list \in SortLists, sortBy \in SortKeys, order \in {"asc", "desc"} :
          call' = [op |-> "sortIngredients",
                   ingredients |-> list,
                   sortBy |-> sortBy,
                   order |-> order,
                   result |-> sortIngredients(list, sortBy, order, now, tz),
                   other |-> sortIngredients(list, sortBy,
                                IF order = "asc" THEN "desc" ELSE "asc", now, tz)]
    /\ UNCHANGED <<now, tz, storageVars, pageVars>>

\* a list operation is called on an array (for loadIngredients, the cache)
CallListOperation ==
    /\ call = Idle
    /\ \E list \in FilterLists :
          LET heap == << list >>
          IN  \E returned \in
                    {LoadIngredientsArray(heap, 1)}
                        \cup {SortIngredientsArray(heap, 1, sortBy, "desc", now, tz) :
                                 sortBy \in {"name", "expiration"}}
                        \cup {FilterIngredientsArray(heap, 1, filters, now, tz) :
                                 filters \in {[search |-> << >>],
                                              [search |-> << "x" >>]}} :
                 call' = [op |-> "listOperation",
                          before |-> list,
                          input |-> 1,
                          heap |-> returned.heap,
                          result |-> returned.ref]
    /\ UNCHANGED <<now, tz, storageVars, pageVars>>

\* the caller adds to, removes from or reorders the array it was handed
MutateReturnedList ==
    /\ call.op = "listOperation"
    /\ \E changed \in ArrayMutations(call.heap[call.result], FirstForm) :
          call' = [call EXCEPT !.op = "listMutated",
                               !.heap[call.result] = changed]
    /\ UNCHANGED <<now, tz, storageVars, pageVars>>

PureNext ==
    \/ CallCalculateBarPosition
    \/ CallGetIngredientStats
    \/ CallListOperation
    \/ MutateReturnedList
    \/ CallSortIngredients
    \/ CallGetExpirationStatus
    \/ CallValidateCreate
    \/ CallValidateIngredient
    \/ CallFilterIngredients
    \/ CallRefreshGanttDisplay

PureSpec == PureInit /\ [][PureNext]_vars

-----------------------------------------------------------------------------
(* firebase.js and js/storage.js: the stored collection and its cache *)

Range(seq) == {seq[i] : i \in 1..Len(seq)}

\* { id: doc.id, ...doc.data() }, as loadIngredientsFromFirestore and the
\* snapshot listener build each record
SnapshotRecord(docId, data) == Spread([id |-> docId], data)

\* string order on the date strings of the model
DateStringLess(a, b) ==
    \/ Len(a) < Len(b)
    \/ Len(a) = 1 /\ Len(b) = 1 /\ a[1] < b[1]

\* orderBy('expirationDate', 'asc'): documents of equal date in document-id order
RECURSIVE OrderByExpiration(_, _)
OrderByExpiration(keys, docs) ==
    IF keys = {} THEN << >>
    ELSE LET first == CHOOSE k \in keys : \A j \in keys \ {k} :
                         \/ DateStringLess(docs[k].expirationDate, docs[j].expirationDate)
                         \/ /\ docs[k].expirationDate = docs[j].expirationDate
                            /\ k[2] < j[2]
         IN  << first >> \o OrderByExpiration(keys \ {first}, docs)

\* the array the snapshot listener hands to its callback
Snapshot(docs) ==
    LET order == OrderByExpiration(DOMAIN docs, docs)
    IN  [i \in 1..Len(order) |-> SnapshotRecord(order[i], docs[order[i]])]

\* the callback of initializeFirestoreSync, had it merged instead of replaced
OnSnapshotMerging(cache, ingredients) == cache \o ingredients

\* the callback of initializeFirestoreSync: ingredientsCache = ingredients
OnSnapshot(cache, ingredients) == ingredients

\* loadIngredients: a copy of the saved array, or of the cache
loadIngredients ==
    IF backend = "localStorage" THEN localStorage ELSE ingredientsCache

Null == [null |-> TRUE]

\* getIngredientById
getIngredientById(id) ==
    LET ingredients == loadIngredients
    IN  IF \E i \in 1..Len(ingredients) : Get(ingredients[i], "id") = id
        THEN ingredients[CHOOSE i \in 1..Len(ingredients) :
                            /\ Get(ingredients[i], "id") = id
                            /\ \A j \in 1..(i - 1) : Get(ingredients[j], "id") # id]
        ELSE Null

\* the merge of updateIngredient (localStorage)
LocalUpdated(ingredient, updates, t) ==
    Spread(Spread(ingredient, updates), [id |-> ingredient.id, updatedAt |-> t])

\* the argument updateIngredientInFirestore passes to update()
UpdateRequestData(data, t) == Spread(data, [updatedAt |-> t])

\* The canonical collection, as the program reads it: storage key -> record.
\* A saved record is keyed by its id, a Firestore document by its document id.
Collection ==
    IF backend = "localStorage"
    THEN [k \in {r.id : r \in Range(localStorage)} |->
             CHOOSE r \in Range(localStorage) : r.id = k]
    ELSE [k \in DOMAIN store |-> SnapshotRecord(k, store[k])]

RecordOrNull(coll, k) == IF k \in DOMAIN coll THEN coll[k] ELSE Null

\* the ids a caller may name: those of the records it reads (the rows drawn
\* from loadIngredients), and the one createIngredient handed out last
TargetIds ==
    {Get(r, "id") : r \in Range(loadIngredients)} \cup {generateUUID(uuidCount)}

\* updates objects: the fields of the form, or an object that carries an id,
\* a createdAt or an updatedAt of its own
UpdateInputs ==
    {[name |-> << "z" >>, category |-> << "c" >>, expirationDate |-> << 4 >>,
      location |-> << >>, notes |-> << >>]}
        \cup {[id |-> i] : i \in TargetIds}
        \cup {[createdAt |-> MaxTime, updatedAt |-> MaxTime]}

\* The page (index.html) declares the elements #toast and #toastMessage that
\* showNotification looks up.
ToastPresent == TRUE

\* showNotification(message, type): the toast is displayed unless the page
\* lacks its elements. A toast is recorded with the operation it is about and
\* with who raised it: the caller of the operation, or the catch of its promise.
showNotification(toasts, seq, type, by) ==
    IF ToastPresent THEN toasts \cup {[seq |-> seq, type |-> type, by |-> by]}
    ELSE toasts

\* what the caller shows once the operation has returned (handleFormSubmit,
\* confirmDeleteIngredient, clearAllData)
CallerNotifies(seq, success) ==
    shown' = showNotification(shown, seq, IF success THEN "success" ELSE "error",
                              "caller")

Settle(seq, outcome) == settled' = (seq :> outcome) @@ settled

noteVars == <<shown, settled, notifiedSinceWrite>>

\* updateIngredient looking the id up before it answers
UpdateIngredientReturnIfCached(id) == getIngredientById(id) # Null

\* updateIngredient (Firestore): return true, once the request has been handed over
UpdateIngredientReturn(id) == TRUE

\* addIngredient inserting the record into the cache before the store answers
CacheAfterAddOptimistic(cache, ingredient) == Append(cache, ingredient)

\* addIngredient (Firestore) makes no assignment to ingredientsCache
CacheAfterAdd(cache, ingredient) == cache

\* a catch that reloads the cache from the store
CacheAfterRejectReloaded(cache, docs) == Snapshot(docs)

\* the catch handlers make no assignment to ingredientsCache
CacheAfterReject(cache, docs) == cache

\* a catch that only logs
CatchOnlyLogs(toasts, seq) == toasts

\* .catch(error => { console.error(...); showNotification(..., 'error') })
CatchNotifies(toasts, seq) == showNotification(toasts, seq, "error", "catch")

SpecInit ==
    /\ now = 0
    /\ tz = 0
    /\ call = Idle
    /\ backend \in {"localStorage", "firestore"}
    /\ StorageInit
    /\ PageInit

Tick ==
    /\ now < MaxTime
    /\ now' = now + 1
    /\ UNCHANGED <<tz, call, storageVars, pageVars>>

firestoreVars == <<store, docCount, pending, clearReads, snapshots, ingredientsCache,
                   isFirestoreInitialized, listeners, lastDelivered>>

(* storage.js, localStorage: every operation loads the array, changes it and *)
(* saves it; saveIngredients returns false when setItem throws.              *)

\* addIngredient(createIngredient(data)); saved tells whether setItem succeeds
LocalAddIngredientOf(data, saved) ==
    LET ingredient == createIngredient(data, generateUUID(uuidCount + 1), now)
    IN  /\ localStorage' = IF saved THEN Append(localStorage, ingredient)
                           ELSE localStorage
        /\ last' = [op |-> "add", seq |-> writes + 1, ingredient |-> ingredient,
                    ret |-> saved]
        /\ applied' = [op |-> "add", seq |-> writes + 1, time |-> now,
                       outcome |-> IF saved THEN "accepted" ELSE "rejected",
                       before |-> Null,
                       after |-> IF saved THEN ingredient ELSE Null]
        /\ CallerNotifies(writes + 1, saved)
        /\ Settle(writes + 1, IF saved THEN "accepted" ELSE "rejected")
        /\ uuidCount' = uuidCount + 1
        /\ writes' = writes + 1
        /\ UNCHANGED <<backend, firestoreVars, notifiedSinceWrite>>

LocalAddIngredient ==
    /\ backend = "localStorage"
    /\ writes < MaxWrites
    /\ \E data \in FormInputs, saved \in BOOLEAN : LocalAddIngredientOf(data, saved)
    /\ UNCHANGED <<now, tz, call, pageVars>>

\* whether updateIngredient finds the id in the saved array
LocalFound(id) == \E i \in 1..Len(localStorage) : localStorage[i].id = id

\* updateIngredient(id, updates); saved tells whether setItem succeeds
LocalUpdateIngredientOf(id, updates, saved) ==
    LET found == LocalFound(id)
        index == CHOOSE i \in 1..Len(localStorage) :
                    /\ localStorage[i].id = id
                    /\ \A j \in 1..(i - 1) : localStorage[j].id # id
        merged == LocalUpdated(localStorage[index], updates, now)
        ok == found /\ saved
    IN  /\ localStorage' = IF ok THEN [localStorage EXCEPT ![index] = merged]
                           ELSE localStorage
        /\ last' = [op |-> "update", seq |-> writes + 1, id |-> id,
                    updates |-> updates, existed |-> found, ret |-> ok]
        /\ applied' = [op |-> "update", seq |-> writes + 1, time |-> now,
                       outcome |-> IF ok THEN "accepted" ELSE "rejected",
                       before |-> IF found THEN localStorage[index] ELSE Null,
                       after |-> IF ok THEN merged
                                 ELSE IF found THEN localStorage[index] ELSE Null]
        /\ CallerNotifies(writes + 1, ok)
        /\ Settle(writes + 1, IF ok THEN "accepted" ELSE "rejected")
        /\ writes' = writes + 1
        /\ UNCHANGED <<backend, uuidCount, firestoreVars, notifiedSinceWrite>>

LocalUpdateIngredient ==
    /\ backend = "localStorage"
    /\ writes < MaxWrites
    /\ \E id \in TargetIds, updates \in UpdateInputs, saved \in BOOLEAN :
          LocalUpdateIngredientOf(id, updates, saved)
    /\ UNCHANGED <<now, tz, call, pageVars>>

LocalDeleteIngredient ==
    /\ backend = "localStorage"
    /\ writes < MaxWrites
    /\ \E id \in TargetIds, saved \in BOOLEAN :
          LET filtered == SelectSeq(localStorage, LAMBDA ing : ing.id # id)
              found == Len(filtered) # Len(localStorage)
              ok == found /\ saved
          IN  /\ localStorage' = IF ok THEN filtered ELSE localStorage
              /\ last' = [op |-> "delete", seq |-> writes + 1, id |-> id,
                          existed |-> found, ret |-> ok]
              /\ applied' = [op |-> "delete", seq |-> writes + 1, time |-> now,
                             outcome |-> IF ok THEN "accepted" ELSE "rejected",
                             before |-> RecordOrNull(Collection, id),
                             after |-> IF ok THEN Null ELSE RecordOrNull(Collection, id)]
              /\ CallerNotifies(writes + 1, ok)
              /\ Settle(writes + 1, IF ok THEN "accepted" ELSE "rejected")
    /\ writes' = writes + 1
    /\ UNCHANGED <<now, tz, call, pageVars, backend, uuidCount, firestoreVars, notifiedSinceWrite>>

LocalClearAllIngredients ==
    /\ backend = "localStorage"
    /\ writes < MaxWrites
    /\ localStorage' = << >>
    /\ last' = [op |-> "clear", seq |-> writes + 1, ret |-> TRUE]
    /\ applied' = [op |-> "clear", seq |-> writes + 1, time |-> now,
                   outcome |-> "accepted", before |-> Null, after |-> Null]
    /\ CallerNotifies(writes + 1, TRUE)
    /\ Settle(writes + 1, "accepted")
    /\ writes' = writes + 1
    /\ UNCHANGED <<now, tz, call, pageVars, backend, uuidCount, firestoreVars, notifiedSinceWrite>>

(* storage.js, Firestore: every operation hands its request to the wrapper *)
(* of firebase.js and returns true without waiting for the promise.  The   *)
(* operations are called from the handlers initApp registers just before   *)
(* it calls initializeFirestoreSync, hence after that call.                *)

Issue(request) ==
    /\ pending' = Append(pending, request)
    /\ writes' = writes + 1

\* After the operation has returned: the caller shows its toast and, on
\* success, calls refreshGanttDisplay, which draws what loadIngredients returns.
Returned(seq, ret) ==
    /\ CallerNotifies(seq, ret)
    /\ notifiedSinceWrite' = FALSE
    /\ UNCHANGED settled

\* initializeFirestoreSync without the test of the flag
NeverInitialized(flag) == FALSE

\* initializeFirestoreSync: if (isFirestoreInitialized) return
AlreadyInitialized(flag) == flag

\* initializeFirestoreSync: a listener that is registered is sent the
\* collection as it is
initializeFirestoreSync ==
    /\ IF AlreadyInitialized(isFirestoreInitialized)
       THEN UNCHANGED <<listeners, snapshots, isFirestoreInitialized>>
       ELSE /\ listeners' = listeners + 1
            /\ snapshots' = Append(snapshots, Snapshot(store))
            /\ isFirestoreInitialized' = TRUE
    /\ UNCHANGED <<backend, uuidCount, localStorage, store, docCount,
                   pending, clearReads, ingredientsCache, writes, last, applied,
                   lastDelivered, noteVars>>

InitializeFirestoreSync ==
    /\ backend = "firestore"
    /\ initializeFirestoreSync
    /\ UNCHANGED <<now, tz, call, pageVars>>

\* addIngredient(createIngredient(data))
AddIngredientOf(data) ==
    LET ingredient == createIngredient(data, generateUUID(uuidCount + 1), now)
    IN  /\ Issue([op |-> "add", seq |-> writes + 1, time |-> now,
                  data |-> AddRequestData(ingredient)])
        /\ ingredientsCache' = CacheAfterAdd(ingredientsCache, ingredient)
        /\ last' = [op |-> "add", seq |-> writes + 1, ingredient |-> ingredient,
                    ret |-> TRUE,
                    refreshed |-> CacheAfterAdd(ingredientsCache, ingredient)]
        /\ Returned(writes + 1, TRUE)
        /\ uuidCount' = uuidCount + 1
        /\ UNCHANGED <<backend, localStorage, store, docCount, clearReads,
                       snapshots, isFirestoreInitialized, listeners,
                       applied, lastDelivered>>

AddIngredient ==
    /\ backend = "firestore"
    /\ isFirestoreInitialized
    /\ writes < MaxWrites
    /\ \E data \in FormInputs : AddIngredientOf(data)
    /\ UNCHANGED <<now, tz, call, pageVars>>

\* updateIngredient(id, updates)
UpdateIngredientOf(id, updates) ==
    /\ Issue([op |-> "update", seq |-> writes + 1, time |-> now, id |-> id,
              data |-> UpdateRequestData(updates, now)])
    /\ last' = [op |-> "update", seq |-> writes + 1, id |-> id,
                updates |-> updates, existed |-> id \in DOMAIN store,
                ret |-> UpdateIngredientReturn(id),
                refreshed |-> loadIngredients]
    /\ Returned(writes + 1, UpdateIngredientReturn(id))
    /\ UNCHANGED <<backend, uuidCount, localStorage, store, docCount,
                   clearReads, snapshots, ingredientsCache, isFirestoreInitialized,
                   listeners, applied, lastDelivered>>

UpdateIngredient ==
    /\ backend = "firestore"
    /\ isFirestoreInitialized
    /\ writes < MaxWrites
    /\ \E id \in TargetIds, updates \in UpdateInputs : UpdateIngredientOf(id, updates)
    /\ UNCHANGED <<now, tz, call, pageVars>>

DeleteIngredient ==
    /\ backend = "firestore"
    /\ isFirestoreInitialized
    /\ writes < MaxWrites
    /\ \E id \in TargetIds :
          /\ Issue([op |-> "delete", seq |-> writes + 1, time |-> now, id |-> id])
          /\ last' = [op |-> "delete", seq |-> writes + 1, id |-> id,
                      existed |-> id \in DOMAIN store, ret |-> TRUE,
                      refreshed |-> loadIngredients]
    /\ Returned(writes + 1, TRUE)
    /\ UNCHANGED <<now, tz, call, pageVars, backend, uuidCount, localStorage, store, docCount,
                   clearReads, snapshots, ingredientsCache, isFirestoreInitialized,
                   listeners, applied, lastDelivered>>

\* clearAllIngredients: the wrapper first reads the collection (get), and only
\* then sends the batch of deletions
ClearAllIngredients ==
    /\ backend = "firestore"
    /\ isFirestoreInitialized
    /\ writes < MaxWrites
    /\ clearReads' = Append(clearReads, [seq |-> writes + 1, time |-> now])
    /\ writes' = writes + 1
    /\ last' = [op |-> "clear", seq |-> writes + 1, ret |-> TRUE,
                 refreshed |-> loadIngredients]
    /\ Returned(writes + 1, TRUE)
    /\ UNCHANGED <<now, tz, call, pageVars, backend, uuidCount, localStorage, store, docCount,
                   pending, snapshots, ingredientsCache, isFirestoreInitialized,
                   listeners, applied, lastDelivered>>

\* the get() of clearAllIngredientsFromFirestore resolves: batch.commit()
ClearReadResolves ==
    /\ clearReads # << >>
    /\ pending' = Append(pending, [op |-> "batch", seq |-> Head(clearReads).seq,
                                   time |-> Head(clearReads).time,
                                   ids |-> DOMAIN store])
    /\ clearReads' = Tail(clearReads)
    /\ UNCHANGED <<now, tz, call, pageVars, backend, uuidCount, localStorage, store, docCount,
                   snapshots, ingredientsCache, isFirestoreInitialized, listeners,
                   writes, last, applied, lastDelivered, noteVars>>

\* the get() of clearAllIngredientsFromFirestore rejects
ClearReadRejects ==
    /\ clearReads # << >>
    /\ clearReads' = Tail(clearReads)
    /\ applied' = [op |-> "clear", seq |-> Head(clearReads).seq,
                   time |-> Head(clearReads).time, outcome |-> "rejected",
                   before |-> Null, after |-> Null]
    /\ Settle(Head(clearReads).seq, "rejected")
    /\ shown' = CatchNotifies(shown, Head(clearReads).seq)
    /\ ingredientsCache' = CacheAfterReject(ingredientsCache, store)
    /\ UNCHANGED <<now, tz, call, pageVars, backend, uuidCount, localStorage, store, docCount,
                   pending, snapshots, isFirestoreInitialized,
                   listeners, writes, last, lastDelivered, notifiedSinceWrite>>

\* the collection after the store has carried out a request it accepts
StoreAfter(request) ==
    CASE request.op = "add" ->
             [k \in DOMAIN store \cup {DocId(docCount + 1)} |->
                 IF k = DocId(docCount + 1) THEN request.data ELSE store[k]]
      [] request.op = "update" ->
             [store EXCEPT ![request.id] = Spread(store[request.id], request.data)]
      [] request.op = "delete" ->
             [k \in DOMAIN store \ {request.id} |-> store[k]]
      [] request.op = "batch" ->
             [k \in DOMAIN store \ request.ids |-> store[k]]

NoDocument == << "none", 0 >>

\* the document a request is about
RequestKey(request) ==
    CASE request.op = "add" -> DocId(docCount + 1)
      [] request.op \in {"update", "delete"} -> request.id
      [] request.op = "batch" -> NoDocument

\* update() of a document that does not exist is refused by the store
Acceptable(request) == request.op = "update" => request.id \in DOMAIN store

\* a single read of the collection in place of a listener: later changes are
\* not notified
NotifyNothing(docs) == UNCHANGED snapshots

\* onSnapshot: every registered listener is sent the collection after every
\* change of it
Notify(docs) ==
    snapshots' = IF docs # store
                 THEN snapshots \o [i \in 1..listeners |-> Snapshot(docs)]
                 ELSE snapshots

\* the store carries out the oldest pending request and notifies the listener
StoreAccepts ==
    /\ pending # << >>
    /\ Acceptable(Head(pending))
    /\ LET request == Head(pending)
           after == StoreAfter(request)
           key == RequestKey(request)
       IN  /\ store' = after
           /\ docCount' = IF request.op = "add" THEN docCount + 1 ELSE docCount
           /\ Notify(after)
           /\ applied' = [op |-> IF request.op = "batch" THEN "clear" ELSE request.op,
                          seq |-> request.seq, time |-> request.time,
                          outcome |-> "accepted",
                          before |-> IF key \in DOMAIN store
                                     THEN SnapshotRecord(key, store[key]) ELSE Null,
                          after |-> IF key \in DOMAIN after
                                    THEN SnapshotRecord(key, after[key]) ELSE Null]
    /\ pending' = Tail(pending)
    /\ Settle(Head(pending).seq, "accepted")
    /\ UNCHANGED <<now, tz, call, pageVars, backend, uuidCount, localStorage, clearReads,
                   ingredientsCache, isFirestoreInitialized, listeners,
                   writes, last, lastDelivered, shown, notifiedSinceWrite>>

\* the store refuses the oldest pending request: the promise rejects, and
\* the catch of the operation that sent it logs the error and shows a toast
StoreRejects ==
    /\ pending # << >>
    /\ LET request == Head(pending)
           key == RequestKey(request)
           record == IF key \in DOMAIN store
                     THEN SnapshotRecord(key, store[key]) ELSE Null
       IN  applied' = [op |-> IF request.op = "batch" THEN "clear" ELSE request.op,
                       seq |-> request.seq, time |-> request.time,
                       outcome |-> "rejected", before |-> record, after |-> record]
    /\ pending' = Tail(pending)
    /\ Settle(Head(pending).seq, "rejected")
    /\ shown' = CatchNotifies(shown, Head(pending).seq)
    /\ ingredientsCache' = CacheAfterReject(ingredientsCache, store)
    /\ UNCHANGED <<now, tz, call, pageVars, backend, uuidCount, localStorage, store, docCount,
                   clearReads, snapshots, isFirestoreInitialized,
                   listeners, writes, last, lastDelivered, notifiedSinceWrite>>

\* the listener receives the oldest snapshot in flight and calls the callback
DeliverSnapshot ==
    /\ snapshots # << >>
    /\ ingredientsCache' = OnSnapshot(ingredientsCache, Head(snapshots))
    /\ lastDelivered' = Head(snapshots)
    /\ snapshots' = Tail(snapshots)
    /\ notifiedSinceWrite' = TRUE
    /\ UNCHANGED <<now, tz, call, pageVars, backend, uuidCount, localStorage, store, docCount,
                   pending, clearReads, isFirestoreInitialized, listeners,
                   writes, last, applied, shown, settled>>

Next ==
    \/ Tick
    \/ LocalAddIngredient
    \/ LocalUpdateIngredient
    \/ LocalDeleteIngredient
    \/ LocalClearAllIngredients
    \/ InitializeFirestoreSync
    \/ AddIngredient
    \/ UpdateIngredient
    \/ DeleteIngredient
    \/ ClearAllIngredients
    \/ ClearReadResolves
    \/ ClearReadRejects
    \/ StoreAccepts
    \/ StoreRejects
    \/ DeliverSnapshot

Spec == SpecInit /\ [][Next]_vars

\* The page calls initializeFirestoreSync when it starts, and the store
\* delivers to a registered listener every snapshot it has queued.
FairSpec ==
    /\ Spec
    /\ WF_vars(InitializeFirestoreSync)
    /\ WF_vars(DeliverSnapshot)

-----------------------------------------------------------------------------
(* Start-up: initApp (js/app.js) and the timer at the end of js/storage.js *)
(* both call initializeFirestoreSync, once each, in either order.          *)

InitApp ==
    /\ backend = "firestore"
    /\ "initApp" \notin started
    /\ initializeFirestoreSync
    /\ started' = started \cup {"initApp"}
    /\ UNCHANGED <<now, tz, call, formVars, debounceVars, workerVars>>

\* the callback of setTimeout(..., 500); firebase is loaded
DeferredStart ==
    /\ backend = "firestore"
    /\ "timer" \notin started
    /\ initializeFirestoreSync
    /\ started' = started \cup {"timer"}
    /\ UNCHANGED <<now, tz, call, formVars, debounceVars, workerVars>>

StartNext ==
    \/ InitApp
    \/ DeferredStart
    \/ AddIngredient
    \/ UpdateIngredient
    \/ DeleteIngredient
    \/ StoreAccepts
    \/ StoreRejects
    \/ DeliverSnapshot

\* the page over Firestore, the backend initializeFirestoreSync belongs to
StartInit == SpecInit /\ backend = "firestore"

StartSpec == StartInit /\ [][StartNext]_vars

-----------------------------------------------------------------------------

(* js/ingredientForm.js and importIngredientsJSON of js/app.js.  The page  *)
(* (index.html) declares the elements the handlers look up.                *)

\* the values of the form's five fields at a submit: valid or not
SubmitInputs ==
    FormInputs
        \cup {[name |-> << " " >>, category |-> << "c" >>, expirationDate |-> << 5 >>,
               location |-> << >>, notes |-> << >>]}

\* the ids openEditForm is called with: the edit buttons carry the ids of the
\* rows drawn, one of which may be the row of a record deleted since
EditIds == TargetIds \cup {DocId(0)}

\* handleFormSubmit going on whatever validateIngredient answered
SubmitProceedsAlways(validation) == TRUE

\* handleFormSubmit: if (!validation.valid) { displayFormErrors; return }
SubmitProceeds(validation) == validation.valid

\* closeForm leaving the editing id as it is
EditingIdKeptOnClose(current) == current

\* closeForm: currentEditingId = null
EditingIdAfterClose(current) == NoValue

OpenAddForm ==
    /\ currentEditingId' = NoValue
    /\ modalActive' = TRUE
    /\ formAction' = [handler |-> "openAddForm"]
    /\ lastOpening' = [handler |-> "openAddForm"]
    /\ UNCHANGED <<now, tz, call, storageVars, sent, debounceVars, workerVars, started>>

OpenEditForm ==
    /\ \E id \in EditIds :
          LET ingredient == getIngredientById(id)
          IN  IF ingredient = Null
              THEN /\ shown' = showNotification(shown, 0, "error", "openEditForm")
                   /\ formAction' = [handler |-> "openEditForm", id |-> id,
                                     found |-> FALSE]
                   /\ UNCHANGED <<currentEditingId, modalActive, lastOpening>>
              ELSE /\ currentEditingId' = id
                   /\ modalActive' = TRUE
                   /\ formAction' = [handler |-> "openEditForm", id |-> id,
                                     found |-> TRUE]
                   /\ lastOpening' = [handler |-> "openEditForm", id |-> id]
                   /\ UNCHANGED shown
    /\ UNCHANGED <<now, tz, call, backend, uuidCount, localStorage, firestoreVars,
                   writes, last, applied, settled, notifiedSinceWrite, sent,
                   debounceVars, workerVars, started>>

CloseForm ==
    /\ modalActive' = FALSE
    /\ currentEditingId' = EditingIdAfterClose(currentEditingId)
    /\ formAction' = [handler |-> "closeForm"]
    /\ lastOpening' = [handler |-> "closeForm"]
    /\ UNCHANGED <<now, tz, call, storageVars, sent, debounceVars, workerVars, started>>

\* handleFormSubmit: the form is submitted from the open modal; saved tells
\* whether setItem succeeds (localStorage)
HandleFormSubmit ==
    /\ modalActive
    /\ backend = "firestore" => isFirestoreInitialized
    /\ writes < MaxWrites
    /\ \E formData \in SubmitInputs,
          saved \in IF backend = "firestore" THEN {TRUE} ELSE BOOLEAN :
          LET validation == validateIngredient(formData)
              editing == Truthy(currentEditingId)
              success ==
                  IF backend = "firestore"
                  THEN IF editing THEN UpdateIngredientReturn(currentEditingId)
                       ELSE TRUE
                  ELSE IF editing THEN LocalFound(currentEditingId) /\ saved
                       ELSE saved
          IN  IF ~SubmitProceeds(validation)
              THEN /\ formAction' = [handler |-> "handleFormSubmit",
                                     valid |-> validation.valid,
                                     editing |-> currentEditingId,
                                     request |-> "none", success |-> FALSE]
                   /\ UNCHANGED <<currentEditingId, modalActive, lastOpening, sent,
                                  storageVars>>
              ELSE /\ CASE backend = "firestore" /\ editing ->
                               UpdateIngredientOf(currentEditingId, formData)
                        [] backend = "firestore" /\ ~editing ->
                               AddIngredientOf(formData)
                        [] backend = "localStorage" /\ editing ->
                               LocalUpdateIngredientOf(currentEditingId, formData, saved)
                        [] backend = "localStorage" /\ ~editing ->
                               LocalAddIngredientOf(formData, saved)
                   /\ sent' = Append(sent, [by |-> "handleFormSubmit",
                                            op |-> IF editing THEN "update" ELSE "add",
                                            id |-> currentEditingId,
                                            data |-> formData,
                                            validation |-> validation.valid])
                   /\ formAction' = [handler |-> "handleFormSubmit",
                                     valid |-> validation.valid,
                                     editing |-> currentEditingId,
                                     request |-> IF editing THEN "update" ELSE "add",
                                     success |-> success]
                   /\ modalActive' = IF success THEN FALSE ELSE modalActive
                   /\ lastOpening' = IF success THEN [handler |-> "closeForm"]
                                     ELSE lastOpening
                   /\ currentEditingId' =
                          IF success THEN EditingIdAfterClose(currentEditingId)
                          ELSE currentEditingId
    /\ UNCHANGED <<now, tz, call, debounceVars, workerVars, started>>

\* the items of an imported file: a valid one, one that fails validation and
\* one on which validateIngredient throws
ImportItems ==
    SubmitInputs
        \cup {[name |-> NumberValue, category |-> << "c" >>, expirationDate |-> << 5 >>]}

\* what JSON.parse returns: an array of items, or something else
ImportFiles ==
    {[isArray |-> TRUE, items |-> items] : items \in SeqsUpTo(ImportItems, MaxListLen)}
        \cup {[isArray |-> FALSE, items |-> << >>]}

\* data.forEach of importIngredientsJSON: the items handed to createIngredient
\* and addIngredient, up to the first item on which validateIngredient throws
RECURSIVE ImportedItems(_)
ImportedItems(items) ==
    IF items = << >> \/ ValidateThrows(Head(items)) THEN << >>
    ELSE (IF validateIngredient(Head(items)).valid THEN << Head(items) >> ELSE << >>)
             \o ImportedItems(Tail(items))

ImportThrows(file) ==
    ~file.isArray \/ \E i \in 1..Len(file.items) : ValidateThrows(file.items[i])

RECURSIVE CacheAfterAdds(_, _)
CacheAfterAdds(cache, ingredients) ==
    IF ingredients = << >> THEN cache
    ELSE CacheAfterAdds(CacheAfterAdd(cache, Head(ingredients)), Tail(ingredients))

\* reader.onload of importIngredientsJSON; saved tells for each addIngredient
\* whether setItem succeeds (localStorage)
ImportIngredientsJSON ==
    /\ backend = "firestore" => isFirestoreInitialized
    /\ \E file \in ImportFiles :
          LET added == ImportedItems(file.items)
              k == Len(added)
              ingredients == [i \in 1..k |->
                                 createIngredient(added[i], generateUUID(uuidCount + i),
                                                  now)]
          IN  /\ writes + k <= MaxWrites
              /\ writes' = writes + k
              /\ uuidCount' = uuidCount + k
              /\ sent' = sent \o [i \in 1..k |->
                                     [by |-> "importIngredientsJSON", op |-> "add",
                                      id |-> NoValue, data |-> added[i],
                                      validation |-> validateIngredient(added[i]).valid]]
              /\ shown' = showNotification(shown, 0,
                              IF ImportThrows(file) THEN "error" ELSE "success",
                              "importIngredientsJSON")
              /\ IF backend = "firestore"
                 THEN /\ pending' = pending \o
                              [i \in 1..k |->
                                  [op |-> "add", seq |-> writes + i, time |-> now,
                                   data |-> AddRequestData(ingredients[i])]]
                      /\ ingredientsCache' = CacheAfterAdds(ingredientsCache, ingredients)
                      /\ last' = IF k = 0 THEN last
                                 ELSE [op |-> "add", seq |-> writes + k,
                                       ingredient |-> ingredients[k], ret |-> TRUE,
                                       refreshed |->
                                           CacheAfterAdds(ingredientsCache, ingredients)]
                      /\ notifiedSinceWrite' = IF k = 0 THEN notifiedSinceWrite ELSE FALSE
                      /\ UNCHANGED <<localStorage, applied, settled>>
                 ELSE \E saved \in [1..k -> BOOLEAN] :
                      LET kept == {i \in 1..k : saved[i]}
                          outcome(i) == IF saved[i] THEN "accepted" ELSE "rejected"
                      IN  /\ localStorage' =
                                 localStorage \o
                                     [j \in 1..Cardinality(kept) |->
                                         ingredients[CHOOSE i \in kept :
                                             Cardinality({h \in kept : h <= i}) = j]]
                          /\ last' = IF k = 0 THEN last
                                     ELSE [op |-> "add", seq |-> writes + k,
                                           ingredient |-> ingredients[k],
                                           ret |-> saved[k]]
                          /\ applied' = IF k = 0 THEN applied
                                        ELSE [op |-> "add", seq |-> writes + k,
                                              time |-> now, outcome |-> outcome(k),
                                              before |-> Null,
                                              after |-> IF saved[k] THEN ingredients[k]
                                                        ELSE Null]
                          /\ settled' = [i \in 1..k |-> outcome(i)] @@ settled
                          /\ UNCHANGED <<pending, ingredientsCache, notifiedSinceWrite>>
    /\ UNCHANGED <<now, tz, call, backend, store, docCount, clearReads, snapshots,
                   isFirestoreInitialized, listeners, lastDelivered,
                   currentEditingId, modalActive, formAction, lastOpening,
                   debounceVars, workerVars, started>>

FormNext ==
    \/ InitializeFirestoreSync
    \/ DeliverSnapshot
    \/ OpenAddForm
    \/ OpenEditForm
    \/ CloseForm
    \/ HandleFormSubmit
    \/ ImportIngredientsJSON

FormSpec == SpecInit /\ [][FormNext]_vars

-----------------------------------------------------------------------------

(* js/search.js: debounce, as initSearchListeners wraps the search handler. *)
(* A timer runs when its delay has passed or later, never before.           *)

\* the values a call of the wrapper passes (the input events)
DebounceArgs == {"e1", "e2"}

\* clearTimeout that cancels nothing
ClearTimeoutNothing(pendingTimers, id) == pendingTimers

\* clearTimeout(id): the timer of that id, if still pending, will not run
ClearTimeout(pendingTimers, id) == {tm \in pendingTimers : tm.id # id}

\* setTimeout(later, wait), returning the id: one more than the last id
SetTimeout(pendingTimers, id, wait, args) ==
    pendingTimers \cup {[id |-> id, due |-> msClock + wait, args |-> args]}

DebounceTick ==
    /\ msClock < MaxClock
    /\ msClock' = msClock + 1
    /\ UNCHANGED <<now, tz, call, storageVars, formVars, workerVars, started,
                   timeout, timers, wrapperCalls, invocations>>

\* executedFunction(...args): the 'input' listener of #searchInput
ExecutedFunction ==
    /\ Len(wrapperCalls) < MaxCalls
    /\ \E args \in DebounceArgs :
          /\ timers' = SetTimeout(ClearTimeout(timers, timeout), timeout + 1,
                                  SearchWait, args)
          /\ wrapperCalls' = Append(wrapperCalls, [time |-> msClock, args |-> args])
    /\ timeout' = timeout + 1
    /\ UNCHANGED <<now, tz, call, storageVars, formVars, workerVars, started,
                   msClock, invocations>>

\* later(): a pending timer whose delay has passed runs
Later ==
    /\ \E tm \in timers :
          /\ msClock >= tm.due
          /\ timers' = ClearTimeout(timers \ {tm}, timeout)
          /\ invocations' = Append(invocations,
                                   [time |-> msClock, args |-> tm.args,
                                    afterCalls |-> Len(wrapperCalls)])
    /\ UNCHANGED <<now, tz, call, storageVars, formVars, workerVars, started,
                   msClock, timeout, wrapperCalls>>

DebounceNext ==
    \/ DebounceTick
    \/ ExecutedFunction
    \/ Later

DebounceSpec == SpecInit /\ [][DebounceNext]_vars

-----------------------------------------------------------------------------

(* sw.js: the service worker.  A cache is a function from requests to     *)
(* responses, cacheStorage a function from cache names to caches.          *)

urlsToCache == {"/index.html"}

FetchRequests == {"/index.html", "/data"}

\* caches.open(name): the cache of that name, created empty if there is none
CachesOpen(storage, name) ==
    IF name \in DOMAIN storage THEN storage ELSE (name :> << >>) @@ storage

\* cache.put(request, response) on the cache of that name
CachePutIn(storage, name, request, response) ==
    [CachesOpen(storage, name) EXCEPT ![name] = (request :> response) @@ @]

\* the responses caches.match(request) may resolve to: an entry of a cache
\* that holds the request, or undefined (<< >>) when none does
CachesMatch(storage, request) ==
    LET holding == {name \in DOMAIN storage : request \in DOMAIN storage[name]}
    IN  IF holding = {} THEN {<< >>}
        ELSE {<< storage[name][request] >> : name \in holding}

\* the fetch handler caching every response
ShouldCacheAlways(response) == TRUE

\* the fetch handler: if (response.ok)
ShouldCache(response) == response.ok

\* the 'install' event: cache.addAll(urlsToCache) stores the responses, all ok
Install ==
    /\ workerState = "installing"
    /\ cacheStorage' =
           [CachesOpen(cacheStorage, CACHE_NAME) EXCEPT
               ![CACHE_NAME] = [u \in urlsToCache |-> Response(0, TRUE)] @@ @]
    /\ workerState' = "installed"
    /\ UNCHANGED <<now, tz, call, storageVars, formVars, debounceVars, started,
                   fetching, responses>>

\* the 'install' event when a request of addAll fails: the cache was opened,
\* the worker is discarded
InstallFails ==
    /\ workerState = "installing"
    /\ cacheStorage' = CachesOpen(cacheStorage, CACHE_NAME)
    /\ workerState' = "redundant"
    /\ UNCHANGED <<now, tz, call, storageVars, formVars, debounceVars, started,
                   fetching, responses>>

\* the 'activate' event (skipWaiting: right after install): every cache of
\* another name is deleted
Activate ==
    /\ workerState = "installed"
    /\ cacheStorage' = [name \in DOMAIN cacheStorage \cap {CACHE_NAME} |->
                           cacheStorage[name]]
    /\ workerState' = "activated"
    /\ UNCHANGED <<now, tz, call, storageVars, formVars, debounceVars, started,
                   fetching, responses>>

\* the fetch events dispatched so far: the answered ones and those awaiting
\* the network
FetchesDispatched ==
    Len(responses) + Cardinality({f \in fetching : f.stage = "network"})

\* a 'fetch' event: fetch(event.request) is sent
FetchEvent ==
    /\ workerState = "activated"
    /\ FetchesDispatched < MaxFetches
    /\ \E request \in FetchRequests :
          fetching' = fetching \cup
              {[id |-> FetchesDispatched + 1,
                request |-> request, stage |-> "network", clone |-> << >>]}
    /\ UNCHANGED <<now, tz, call, storageVars, formVars, debounceVars, started,
                   cacheStorage, workerState, responses>>

\* fetch resolves: the page gets the response; an ok one is to be cached
NetworkResolves ==
    /\ \E f \in fetching, ok \in BOOLEAN :
          /\ f.stage = "network"
          /\ responses' = Append(responses,
                                 [id |-> f.id, request |-> f.request,
                                  network |-> "resolved", ok |-> ok,
                                  served |-> "network",
                                  delivered |-> << Response(f.id, ok) >>])
          /\ fetching' = (fetching \ {f}) \cup
                 (IF ShouldCache(Response(f.id, ok))
                  THEN {[id |-> f.id, request |-> f.request, stage |-> "put",
                         clone |-> << Response(f.id, ok) >>]}
                  ELSE {})
    /\ UNCHANGED <<now, tz, call, storageVars, formVars, debounceVars, started,
                   cacheStorage, workerState>>

\* caches.open(CACHE_NAME).then(cache => cache.put(event.request, clone))
CachePut ==
    /\ \E f \in fetching :
          /\ f.stage = "put"
          /\ cacheStorage' = CachePutIn(cacheStorage, CACHE_NAME, f.request,
                                        f.clone[1])
          /\ fetching' = fetching \ {f}
    /\ UNCHANGED <<now, tz, call, storageVars, formVars, debounceVars, started,
                   workerState, responses>>

\* fetch rejects: the page gets what caches.match(event.request) resolves to
NetworkRejects ==
    /\ \E f \in fetching :
          /\ f.stage = "network"
          /\ \E found \in CachesMatch(cacheStorage, f.request) :
                responses' = Append(responses,
                                    [id |-> f.id, request |-> f.request,
                                     network |-> "rejected", ok |-> FALSE,
                                     served |-> "cache", delivered |-> found])
          /\ fetching' = fetching \ {f}
    /\ UNCHANGED <<now, tz, call, storageVars, formVars, debounceVars, started,
                   cacheStorage, workerState>>

WorkerNext ==
    \/ Install
    \/ InstallFails
    \/ Activate
    \/ FetchEvent
    \/ NetworkResolves
    \/ CachePut
    \/ NetworkRejects

WorkerSpec == SpecInit /\ [][WorkerNext]_vars

-----------------------------------------------------------------------------

(* Claims about the pure functions, checked under PureSpec *)

SatisfiesRequiredFields(data) ==
    /\ Len(Trim(Get(data, "name"))) > 0
    /\ Len(Get(data, "name")) <= MaxNameLength
    /\ Len(Trim(Get(data, "category"))) > 0
    /\ ~IsNaN(ParseDate(Get(data, "expirationDate")))
    /\ \/ "purchaseDate" \notin DOMAIN data
       \/ LessEq(ParseDate(data.purchaseDate), ParseDate(data.expirationDate))

\* C3: for every data that satisfies the required fields,
\* validateIngredient(createIngredient(data)).valid is true, whatever the
\* relation between today and expirationDate when purchaseDate is omitted.
C3_ValidateCreateValid ==
    (call.op = "validateCreate" /\ SatisfiesRequiredFields(call.data)) =>
        call.result.valid

\* the search criterion as the specification defines it: the trimmed,
\* lower-cased query is a substring of the lower-cased name, category, notes
\* or location
SearchMatchesAnyOfFourFields(ing, search) ==
    \E f \in {"name", "category", "notes", "location"} :
        Includes(ToLowerCase(Get(ing, f)), Trim(ToLowerCase(search)))

InSeq(x, seq) == \E i \in 1..Len(seq) : seq[i] = x

\* C5: with a non-empty search criterion (and the other criteria empty) the
\* displayed list contains a loaded record iff the query matches one of its
\* four fields name, category, notes, location.
C5_DisplaySearchFourFields ==
    (/\ call.op = "refreshGanttDisplay"
     /\ Truthy(call.search)
     /\ call.category = << >>
     /\ call.status = "") =>
        \A i \in 1..Len(call.loaded) :
            InSeq(call.loaded[i], call.result)
                <=> SearchMatchesAnyOfFourFields(call.loaded[i], call.search)

\* the criteria of filterIngredients as the specification defines them
SatisfiesCriteria(ing, filters, t, zone) ==
    /\ Truthy(filters.search) => SearchMatchesAnyOfFourFields(ing, filters.search)
    /\ Truthy(filters.category) => ing.category = filters.category
    /\ filters.status # "" => getExpirationStatus(ing, t, zone) = filters.status
    /\ Truthy(filters.startDate) =>
          LessEq(ParseDate(filters.startDate), ParseDate(ing.expirationDate))
    /\ Truthy(filters.endDate) =>
          LessEq(ParseDate(ing.expirationDate), ParseDate(filters.endDate))

\* C6: filterIngredients returns, in input order, exactly the records that
\* satisfy every non-empty criterion among search, category, status, startDate
\* and endDate; empty criteria exclude nothing.
C6_FilterIsConjunction ==
    call.op = "filterIngredients" =>
        call.result = SelectSeq(call.ingredients,
                          LAMBDA ing : SatisfiesCriteria(ing, call.filters, now, tz))

\* The same with the search criterion as filterIngredients implements it
\* (name, category, notes): the conjunction itself is as C6 states.
SatisfiesCodeCriteria(ing, filters, t, zone) ==
    /\ Truthy(filters.search) =>
          FilterSearchMatch(ing, Trim(ToLowerCase(filters.search)))
    /\ Truthy(filters.category) => ing.category = filters.category
    /\ filters.status # "" => getExpirationStatus(ing, t, zone) = filters.status
    /\ Truthy(filters.startDate) =>
          LessEq(ParseDate(filters.startDate), ParseDate(ing.expirationDate))
    /\ Truthy(filters.endDate) =>
          LessEq(ParseDate(ing.expirationDate), ParseDate(filters.endDate))

FilterIsConjunctionOfThreeFieldSearch ==
    call.op = "filterIngredients" =>
        call.result = SelectSeq(call.ingredients,
                          LAMBDA ing : SatisfiesCodeCriteria(ing, call.filters, now, tz))

\* the four rules of C11, in the claim's words
NameRule(data) ==
    /\ Len(Trim(Get(data, "name"))) > 0
    /\ Len(Trim(Get(data, "name"))) <= MaxNameLength

CategoryRule(data) == Len(Trim(Get(data, "category"))) > 0

ExpirationRule(data) ==
    /\ Truthy(Get(data, "expirationDate"))
    /\ ~IsNaN(ParseDate(Get(data, "expirationDate")))

PurchaseRule(data) ==
    \/ ~Truthy(Get(data, "purchaseDate"))
    \/ /\ ~IsNaN(ParseDate(data.purchaseDate))
       /\ ~IsNaN(ParseDate(Get(data, "expirationDate"))) =>
              LessEq(ParseDate(data.purchaseDate), ParseDate(data.expirationDate))

ViolatedFields(data) ==
    {f \in {"name"} : ~NameRule(data)}
        \cup {f \in {"category"} : ~CategoryRule(data)}
        \cup {f \in {"expirationDate"} : ~ExpirationRule(data)}
        \cup {f \in {"purchaseDate"} : ~PurchaseRule(data)}

\* C11: validateIngredient(data).valid is true iff the name, category,
\* expirationDate and purchaseDate rules all hold; errors is empty iff valid,
\* and its keys are exactly the fields whose rule is violated.
C11_ValidIffRulesHold ==
    (call.op = "validateIngredient" /\ ~call.outcome.thrown) =>
        LET result == call.outcome.value
        IN  /\ result.valid <=> ViolatedFields(call.data) = {}
            /\ (DOMAIN result.errors = {}) <=> result.valid
            /\ DOMAIN result.errors = ViolatedFields(call.data)

\* a name of exactly 100 characters after trim (101 before) has passed, and the
\* only error is a purchaseDate later than the expirationDate
C11_Witness ==
    /\ call.op = "validateIngredient"
    /\ ~call.outcome.thrown
    /\ Len(Get(call.data, "name")) = MaxNameLength + 1
    /\ ~call.outcome.value.valid
    /\ DOMAIN call.outcome.value.errors = {"purchaseDate"}
    /\ ~IsNaN(ParseDate(Get(call.data, "purchaseDate")))

\* C12: validateIngredient never raises: for every input record, including
\* records with missing fields, unparseable dates or non-string field values,
\* it returns a {valid, errors} value (and changes no state).
C12_ValidateNeverRaises ==
    call.op = "validateIngredient" =>
        /\ ~call.outcome.thrown
        /\ DOMAIN call.outcome.value = {"valid", "errors"}

\* what holds of C12: on records whose fields are strings or missing, it
\* returns a {valid, errors} value
ValidateReturnsOnStringFields ==
    (call.op = "validateIngredient" /\ ~ValidateThrows(call.data)) =>
        /\ ~call.outcome.thrown
        /\ DOMAIN call.outcome.value = {"valid", "errors"}

\* C13: when expirationDate does not parse, calculateDaysRemaining yields 0,
\* and the status is the one 0 days remaining gives.
C13_UnparseableDateYieldsZero ==
    (/\ call.op = "getExpirationStatus"
     /\ IsNaN(ParseDate(call.ingredient.expirationDate))) =>
        /\ call.daysRemaining = Num(0)
        /\ call.result = StatusOfDays(Num(0))

\* C18: loadIngredients, sortIngredients and filterIngredients return a new
\* list: the cache or input list holds the same elements in the same order
\* after the call, and after elements are added to, removed from or reordered
\* in the returned list.
C18_ListOperationsReturnCopies ==
    call.op \in {"listOperation", "listMutated"} =>
        /\ call.result # call.input
        /\ call.heap[call.input] = call.before

\* the returned list held the elements of a non-empty input and was changed
C18_Witness ==
    /\ call.op = "listMutated"
    /\ call.before # << >>
    /\ call.heap[call.result] # call.before
    /\ call.heap[call.input] = call.before

\* the order of the sort keys, in the words of C19: text keys compare
\* case-insensitively, dates chronologically, status by rank
\* expired < critical < warning < fresh (a record without purchase date has
\* the key the comparator gives it, the earliest date)
StatusRank(status) ==
    CHOOSE n \in 1..4 : << "expired", "critical", "warning", "fresh" >>[n] = status

KeyBefore(a, b, sortBy) ==
    CASE sortBy = "name" -> StringLess(ToLowerCase(a.name), ToLowerCase(b.name))
      [] sortBy = "category" ->
             StringLess(ToLowerCase(a.category), ToLowerCase(b.category))
      [] sortBy = "purchase" -> Less(PurchaseKey(a), PurchaseKey(b))
      [] sortBy = "expiration" ->
             Less(ParseDate(a.expirationDate), ParseDate(b.expirationDate))
      [] sortBy = "status" ->
             StatusRank(getExpirationStatus(a, now, tz))
                 < StatusRank(getExpirationStatus(b, now, tz))

\* result[i] = list[p[i]] for a permutation p of the positions
PermutationsOnto(list, result) ==
    IF Len(list) # Len(result) THEN {}
    ELSE {p \in Permutations(1..Len(list)) :
             \A i \in 1..Len(list) : result[i] = list[p[i]]}

\* C19: for every list, key and order, sortIngredients returns a permutation
\* of the input whose consecutive elements are in non-decreasing key order
\* for 'asc' and in non-increasing key order for 'desc'.
C19_SortedPermutation ==
    call.op = "sortIngredients" =>
        /\ PermutationsOnto(call.ingredients, call.result) # {}
        /\ \A i \in 1..(Len(call.result) - 1) :
              IF call.order = "asc"
              THEN ~KeyBefore(call.result[i + 1], call.result[i], call.sortBy)
              ELSE ~KeyBefore(call.result[i], call.result[i + 1], call.sortBy)

\* three records were sorted by name, descending, and changed places; two of
\* the names differ in case
C19_Witness ==
    /\ call.op = "sortIngredients"
    /\ call.sortBy = "name"
    /\ call.order = "desc"
    /\ Len(call.ingredients) = 3
    /\ call.result # call.ingredients
    /\ \E i, j \in 1..3 : /\ call.ingredients[i].name = << "B" >>
                          /\ call.ingredients[j].name = << "a" >>

KeysEqual(a, b, sortBy) == ~KeyBefore(a, b, sortBy) /\ ~KeyBefore(b, a, sortBy)

\* C20: sortIngredients is stable for both orders (records whose keys compare
\* equal keep their relative order), and for lists whose keys are pairwise
\* distinct the 'desc' result is the reverse of the 'asc' result.
C20_SortIsStable ==
    call.op = "sortIngredients" =>
        /\ \E p \in PermutationsOnto(call.ingredients, call.result) :
              \A i, j \in 1..Len(call.result) :
                  (i < j /\ KeysEqual(call.result[i], call.result[j], call.sortBy))
                      => p[i] < p[j]
        /\ (\A i, j \in 1..Len(call.ingredients) :
                i # j => ~KeysEqual(call.ingredients[i], call.ingredients[j],
                                    call.sortBy))
               => call.other = Reverse(call.result)

\* a descending sort moved records and kept two different records of equal
\* key in their input order
C20_Witness ==
    /\ call.op = "sortIngredients"
    /\ call.order = "desc"
    /\ call.result # call.ingredients
    /\ \E i, j \in 1..Len(call.ingredients) :
          /\ i < j
          /\ call.ingredients[i] # call.ingredients[j]
          /\ KeysEqual(call.ingredients[i], call.ingredients[j], call.sortBy)

-----------------------------------------------------------------------------
\* the number of records of a list that satisfy a predicate
CountWhere(list, P(_)) == Cardinality({i \in 1..Len(list) : P(list[i])})

CategoriesPresent(list) == {Get(list[i], "category") : i \in 1..Len(list)}

StatsTallyFor(list, stats, categories) ==
    /\ stats.total = Len(list)
    /\ stats.total = stats.expired + stats.critical + stats.warning + stats.fresh
    /\ \A s \in Statuses :
          stats[s] = CountWhere(list, LAMBDA ing :
                                          getExpirationStatus(ing, now, tz) = s)
    /\ \A c \in categories :
          /\ c \in DOMAIN stats.byCategory
          /\ stats.byCategory[c]
                = Num(CountWhere(list, LAMBDA ing : Get(ing, "category") = c))

\* C21: getIngredientStats returns total = length of the list = expired +
\* critical + warning + fresh, each status count is the number of records with
\* that status, and byCategory[c] is the number of records with category c,
\* for every category c present in the list.
C21_StatsTally ==
    call.op = "getIngredientStats" =>
        StatsTallyFor(call.ingredients, call.result,
                      CategoriesPresent(call.ingredients))

\* the same tally, for the categories that are not names objects inherit, and
\* no count for a category that is absent
StatsTallyOfOrdinaryCategories ==
    call.op = "getIngredientStats" =>
        /\ StatsTallyFor(call.ingredients, call.result,
                         CategoriesPresent(call.ingredients) \ ObjectPrototypeKeys)
        /\ DOMAIN call.result.byCategory = CategoriesPresent(call.ingredients)

\* the reference day of the display: the calendar day of now, local time
LocalToday == (now + tz) \div HoursPerDay

\* the calendar-day offsets of a record from the reference day; a record
\* without purchase date counts as purchased on the reference day
ExpirationOffsetDays(ingredient) == ingredient.expirationDate[1] - LocalToday

PurchaseOffsetDays(ingredient) ==
    IF Truthy(Get(ingredient, "purchaseDate"))
    THEN ingredient.purchaseDate[1] - LocalToday
    ELSE 0

DurationDays(ingredient) ==
    ExpirationOffsetDays(ingredient) - PurchaseOffsetDays(ingredient)

BarWithinTimeline(position) ==
    /\ LessEq(Num(0), position.left)
    /\ LessEq(position.left, Percent(100))
    /\ LessEq(Num(0), position.width)
    /\ ~IsNaN(position.left) /\ ~IsNaN(position.width)
    /\ position.left[1] + position.width[1] <= Percent(100)[1]

BarFitsWindow(ingredient) ==
    /\ PurchaseOffsetDays(ingredient) \in 0..(TIMELINE_DAYS - 1)
    /\ DurationDays(ingredient) >= 0
    /\ PurchaseOffsetDays(ingredient) + DurationDays(ingredient) <= TIMELINE_DAYS

\* C22: for every pair of purchase and expiration dates calculateBarPosition
\* returns 0 <= left <= 100, width >= 0 and left + width <= 100; when the
\* purchase date is within the window and the span fits, left is
\* purchaseOffsetDays / 90 * 100 and width is durationDays / 90 * 100.
C22_BarWithinTimeline ==
    call.op = "calculateBarPosition" =>
        /\ BarWithinTimeline(call.result)
        /\ BarFitsWindow(call.ingredient) =>
              /\ call.result.left = PercentOfDays(Num(PurchaseOffsetDays(call.ingredient)))
              /\ call.result.width = PercentOfDays(Num(DurationDays(call.ingredient)))

\* the bounds alone, in every time zone
BarAlwaysWithinTimeline ==
    call.op = "calculateBarPosition" => BarWithinTimeline(call.result)

\* C22 where local midnight is not after UTC midnight
BarPositionEastOfGreenwich ==
    tz >= 0 => C22_BarWithinTimeline

\* C23: calculateBarPosition returns visible = true iff the expiration date is
\* on or after the reference day and the purchase date is before the end of
\* the window; a bar is drawn for a record only if it is visible and its width
\* is greater than 0.
C23_VisibleIffOverlapsWindow ==
    call.op = "calculateBarPosition" =>
        /\ call.result.visible <=>
              /\ ExpirationOffsetDays(call.ingredient) >= 0
              /\ PurchaseOffsetDays(call.ingredient) < TIMELINE_DAYS
        /\ call.drawn => (call.result.visible /\ Less(Num(0), call.result.width))

\* the second half of C23 alone, in every time zone
BarDrawnOnlyIfVisibleAndWide ==
    call.op = "calculateBarPosition" =>
        (call.drawn <=> (call.result.visible /\ Less(Num(0), call.result.width)))

\* C23 where local midnight is not after UTC midnight
VisibleIffOverlapsEastOfGreenwich ==
    tz >= 0 => C23_VisibleIffOverlapsWindow

\* C24: for every expiration date and reference day (today, local time),
\* calculateDaysRemaining returns the number of calendar days from the
\* reference day to the expiration day: 0 for the same day, negative iff the
\* expiration day is before the reference day.
C24_DaysRemainingIsCalendarDifference ==
    (/\ call.op = "getExpirationStatus"
     /\ ~IsNaN(ParseDate(call.ingredient.expirationDate))) =>
        call.daysRemaining = Num(ExpirationOffsetDays(call.ingredient))

\* C24 where local midnight is not after UTC midnight
DaysRemainingEastOfGreenwich ==
    tz >= 0 => C24_DaysRemainingIsCalendarDifference

(* Claims about the stored collection and its cache, checked under Spec *)

UpdateApplied == applied.op = "update" /\ applied.outcome = "accepted"

\* C2: the record stored after updateIngredient(id, updates) has the id and
\* the createdAt of the record before the update, whatever updates carries.
C2_UpdatePreservesIdAndCreatedAt ==
    UpdateApplied =>
        /\ applied.after.id = applied.before.id
        /\ applied.after.createdAt = applied.before.createdAt

\* C4: the cache that loadIngredients and getIngredientById read is exactly
\* the snapshot the most recent notification delivered.
C4_CacheIsLastSnapshot ==
    backend = "firestore" =>
        /\ loadIngredients = lastDelivered
        /\ \A id \in TargetIds :
              getIngredientById(id) =
                  IF \E i \in 1..Len(lastDelivered) : lastDelivered[i].id = id
                  THEN lastDelivered[CHOOSE i \in 1..Len(lastDelivered) :
                           /\ lastDelivered[i].id = id
                           /\ \A j \in 1..(i - 1) : lastDelivered[j].id # id]
                  ELSE Null

\* a deletion was accepted and its snapshot, the second one delivered, has
\* replaced the cache that held the deleted record
C4_Witness ==
    /\ backend = "firestore"
    /\ applied.op = "delete"
    /\ applied.outcome = "accepted"
    /\ applied.before # Null
    /\ pending = << >>
    /\ snapshots = << >>
    /\ ingredientsCache = << >>

\* C7: updateIngredient with an id that matches no record reports failure to
\* its caller and leaves the collection unchanged.
C7_UpdateUnknownIdFails ==
    (last.op = "update" /\ ~last.existed) =>
        /\ last.ret = FALSE
        /\ applied.seq = last.seq =>
              applied.outcome = "rejected" /\ applied.after = applied.before

\* the collection half of C7 alone: such an update never changes the collection
UpdateUnknownIdLeavesCollection ==
    (last.op = "update" /\ ~last.existed /\ applied.seq = last.seq) =>
        applied.outcome = "rejected" /\ applied.after = applied.before

UniqueIds ==
    \A i, j \in 1..Len(loadIngredients) :
        i # j => loadIngredients[i].id # loadIngredients[j].id

IdsNeverReassigned ==
    [][\A k \in DOMAIN Collection \cap DOMAIN Collection' :
           Collection'[k].id = Collection[k].id]_vars

\* C8: in every reachable state no two records of the collection have the same
\* id, and the id of a record never changes while the record is stored.
C8_IdsUniqueAndNeverReassigned == []UniqueIds /\ IdsNeverReassigned

Synchronised ==
    \/ backend = "localStorage"
    \/ pending = << >> /\ clearReads = << >> /\ snapshots = << >>

\* C9: once a created record has been added and the cache has synchronised,
\* getIngredientById(created.id) returns that record.
C9_CreatedIdIsRecordId ==
    (/\ last.op = "add"
     /\ applied.op = "add"
     /\ applied.seq = last.seq
     /\ applied.outcome = "accepted"
     /\ Synchronised) =>
        getIngredientById(last.ingredient.id) = last.ingredient

\* the second half of C10 alone: an accepted update stamps updatedAt with the
\* time of the call, whatever updates carries
UpdateStampsUpdatedAt ==
    UpdateApplied => applied.after.updatedAt = applied.time

\* C10: every record has updatedAt >= createdAt, and every accepted update
\* sets updatedAt to the time of that write.
C10_UpdatedAtNotBeforeCreatedAt ==
    /\ \A k \in DOMAIN Collection : Collection[k].updatedAt >= Collection[k].createdAt
    /\ UpdateStampsUpdatedAt

Toast(seq, type, by) == [seq |-> seq, type |-> type, by |-> by]

\* C14: the Firestore addIngredient, updateIngredient, deleteIngredient and
\* clearAllIngredients return success at once, before the store has confirmed
\* or rejected the write, and the caller shows the success message.
C14_WritesReturnSuccessAtOnce ==
    [][(backend = "firestore" /\ writes' = writes + 1) =>
          /\ last'.seq = writes'
          /\ last'.ret = TRUE
          /\ Toast(writes', "success", "caller") \in shown'
          /\ writes' \notin DOMAIN settled'
          /\ store' = store]_vars

\* an update was reported successful and the store has since rejected it
C14_Witness ==
    /\ backend = "firestore"
    /\ last.op = "update"
    /\ last.ret = TRUE
    /\ Toast(last.seq, "success", "caller") \in shown
    /\ last.seq \in DOMAIN settled
    /\ settled[last.seq] = "rejected"

\* C15: a write has been reported successful and the cache, read by the
\* refresh that follows the write, does not contain the effect of the write:
\* the refresh draws the cache as it was before the write, and the store has
\* not changed yet.
C15_RefreshReadsCacheBeforeWrite ==
    [][(backend = "firestore" /\ writes' = writes + 1) =>
          /\ last'.ret = TRUE
          /\ last'.refreshed = ingredientsCache
          /\ store' = store]_vars

\* an add has been reported successful, a change notification has arrived
\* since, and the cache mirrors a collection the add has not reached yet
C15_Witness ==
    /\ backend = "firestore"
    /\ last.op = "add"
    /\ Toast(last.seq, "success", "caller") \in shown
    /\ notifiedSinceWrite
    /\ pending # << >>
    /\ Head(pending).seq = last.seq
    /\ ingredientsCache = Snapshot(store)
    /\ ingredientsCache # << >>

\* C16: only the change-notification callback writes the cache: no step that
\* issues a write, and no step in which the store accepts or rejects one,
\* changes it.
C16_OnlyCallbackWritesCache ==
    [][ingredientsCache' # ingredientsCache =>
          /\ snapshots # << >>
          /\ ingredientsCache' = Head(snapshots)
          /\ snapshots' = Tail(snapshots)
          /\ writes' = writes
          /\ settled' = settled]_vars

\* one write was accepted, another rejected, and the cache still is the last
\* snapshot delivered, which lacks the accepted write
C16_Witness ==
    /\ backend = "firestore"
    /\ \E a, b \in DOMAIN settled :
          settled[a] = "accepted" /\ settled[b] = "rejected"
    /\ ingredientsCache = lastDelivered
    /\ ingredientsCache # << >>
    /\ ingredientsCache # Snapshot(store)

\* C17: every write the store has rejected has its error toast, raised by the
\* catch of the operation, and no such toast exists for a write the store
\* accepted or has not settled.
C17_RejectedWritesAreNotified ==
    backend = "firestore" =>
        /\ \A seq \in DOMAIN settled :
              settled[seq] = "rejected" <=> Toast(seq, "error", "catch") \in shown
        /\ \A toast \in shown :
              toast.by = "catch" =>
                  toast.seq \in DOMAIN settled /\ settled[toast.seq] = "rejected"

\* a clear was rejected and notified, after a write that was accepted silently
C17_Witness ==
    /\ backend = "firestore"
    /\ last.op = "clear"
    /\ last.seq \in DOMAIN settled
    /\ settled[last.seq] = "rejected"
    /\ Toast(last.seq, "error", "catch") \in shown
    /\ \E a \in DOMAIN settled :
          settled[a] = "accepted" /\ Toast(a, "error", "catch") \notin shown

\* a step in which the store or the get() of clear refuses a write
RejectionStep == applied' # applied /\ applied'.outcome = "rejected"

CacheEqualsStore == backend = "firestore" => ingredientsCache = Snapshot(store)

\* C25: under fair delivery of change notifications the cache eventually
\* equals the store's collection and stays equal once no further write is
\* issued, so every accepted write becomes visible through loadIngredients;
\* a rejected write changes neither the collection nor the cache, so it never
\* does.
C25_CacheEventuallyEqualsStore ==
    /\ <>[]CacheEqualsStore
    /\ [][RejectionStep => (store' = store /\ ingredientsCache' = ingredientsCache)]_vars

\* all writes were issued, one was rejected, the last was an accepted add, and
\* loadIngredients returns the collection with the added record
C25_Witness ==
    /\ backend = "firestore"
    /\ writes = MaxWrites
    /\ pending = << >> /\ clearReads = << >> /\ snapshots = << >>
    /\ \E s \in DOMAIN settled : settled[s] = "rejected"
    /\ applied.op = "add" /\ applied.outcome = "accepted"
    /\ loadIngredients = Snapshot(store)
    /\ \E i \in 1..Len(loadIngredients) : loadIngredients[i] = applied.after

-----------------------------------------------------------------------------
(* Claims about the form and the import, checked under FormSpec *)

\* a step of handleFormSubmit or importIngredientsJSON that hands data to
\* addIngredient or updateIngredient
SendStep == sent' # sent

SubmitSendStep ==
    /\ Len(sent') = Len(sent) + 1
    /\ sent'[Len(sent')].by = "handleFormSubmit"

\* a step of handleFormSubmit on data that fails validation
InvalidSubmitStep ==
    /\ formAction' # formAction
    /\ formAction'.handler = "handleFormSubmit"
    /\ ~formAction'.valid

StoreRequests == <<writes, pending, localStorage>>

\* every storage operation was handed validated data, and every request in
\* the store's queue is one of them
SentDataValidated ==
    /\ Len(sent) = writes
    /\ \A i \in 1..Len(sent) :
          /\ ~ValidateThrows(sent[i].data)
          /\ validateIngredient(sent[i].data).valid
          /\ sent[i].validation
    /\ backend = "firestore" =>
          /\ Len(pending) = Len(sent)
          /\ \A i \in 1..Len(pending) :
                /\ pending[i].op = sent[i].op
                /\ pending[i].op = "update" =>
                      Without(pending[i].data, "updatedAt") = sent[i].data
                /\ pending[i].op = "add" =>
                      pending[i].data.name = Trim(sent[i].data.name)

\* C26: every add or update request that form submission or JSON import
\* sends to the store carries data for which validateIngredient returned
\* valid = true; a submission whose data fails validation issues no store
\* request, leaves the form open and keeps the current editing id unchanged.
C26_OnlyValidatedDataIsSent ==
    /\ []SentDataValidated
    /\ [][InvalidSubmitStep =>
              /\ UNCHANGED StoreRequests
              /\ modalActive'
              /\ currentEditingId' = currentEditingId]_vars

\* an import and a valid submission of an edit have sent data, and a
\* submission of invalid data has just been turned down with the form open
C26_Witness ==
    /\ \E i \in 1..Len(sent) : sent[i].by = "importIngredientsJSON"
    /\ \E i \in 1..Len(sent) : sent[i].by = "handleFormSubmit" /\ sent[i].op = "update"
    /\ formAction.handler = "handleFormSubmit"
    /\ ~formAction.valid
    /\ modalActive

\* the editing id is non-null exactly while the last handler that opened or
\* closed the form is an openEditForm that found its record
EditingIffOpenedForEdit ==
    /\ Truthy(currentEditingId) <=> lastOpening.handler = "openEditForm"
    /\ Truthy(currentEditingId) => currentEditingId = lastOpening.id

\* a step of openEditForm with an id that getIngredientById does not find
OpenEditMissingStep ==
    /\ formAction' # formAction
    /\ formAction'.handler = "openEditForm"
    /\ ~formAction'.found

-----------------------------------------------------------------------------
(* Claims about debounce, checked under DebounceSpec *)

InvocationsAfter(i) == {j \in 1..Len(invocations) : invocations[j].afterCalls = i}

\* call i+1 of the wrapper follows call i by less than the wait
FollowsWithinWait(i) ==
    /\ i < Len(wrapperCalls)
    /\ wrapperCalls[i + 1].time < wrapperCalls[i].time + SearchWait

\* call i is the last of a burst that is over: more than the wait has passed
\* before the next call, or the wait has passed and there is no next call
BurstEndedAt(i) ==
    /\ i \in 1..Len(wrapperCalls)
    /\ ~FollowsWithinWait(i)
    /\ IF i < Len(wrapperCalls)
       THEN wrapperCalls[i + 1].time > wrapperCalls[i].time + SearchWait
       ELSE msClock >= wrapperCalls[i].time + SearchWait

\* func is never invoked earlier than wait after the most recent call of the
\* wrapper, and is invoked with the arguments of that call
InvokedAfterWaitWithLastArgs ==
    \A j \in 1..Len(invocations) :
        LET i == invocations[j].afterCalls
        IN  /\ i >= 1
            /\ invocations[j].time >= wrapperCalls[i].time + SearchWait
            /\ invocations[j].args = wrapperCalls[i].args

\* C28 as stated: func is never invoked earlier than wait after the most
\* recent call of the wrapper, and a burst of calls, each following the
\* previous one by less than wait, results in exactly one invocation of func,
\* with the arguments of the last call of the burst.
C28_ExactlyOneInvocationPerBurst ==
    /\ InvokedAfterWaitWithLastArgs
    /\ \A i \in 1..Len(wrapperCalls) :
          /\ FollowsWithinWait(i) => InvocationsAfter(i) = {}
          /\ (BurstEndedAt(i) /\ i < Len(wrapperCalls)) =>
                Cardinality(InvocationsAfter(i)) = 1

\* C28, amended: func is never invoked earlier than wait after the most
\* recent call of the wrapper and gets that call's arguments; a call followed
\* by another within the wait causes no invocation; the last call of a burst
\* causes at most one invocation, and exactly one unless the next call of
\* the wrapper comes before the timer has run (then that call cancels it).
C28_AtMostOneInvocationPerBurst ==
    /\ InvokedAfterWaitWithLastArgs
    /\ \A i \in 1..Len(wrapperCalls) :
          /\ FollowsWithinWait(i) => InvocationsAfter(i) = {}
          /\ Cardinality(InvocationsAfter(i)) <= 1
    /\ Cardinality(timers) <= 1
    /\ (wrapperCalls # << >> /\ timers = {}) =>
          Cardinality(InvocationsAfter(Len(wrapperCalls))) = 1

\* a burst of two calls with different arguments, the second within the wait
\* of the first, has been answered by one invocation with the second's
\* arguments
C28_Witness ==
    /\ Len(wrapperCalls) = 2
    /\ FollowsWithinWait(1)
    /\ wrapperCalls[1].args # wrapperCalls[2].args
    /\ Len(invocations) = 1
    /\ invocations[1].args = wrapperCalls[2].args
    /\ timers = {}

-----------------------------------------------------------------------------
(* Claims about start-up, checked under StartSpec *)

OneListener ==
    /\ listeners <= 1
    /\ started # {} => (listeners = 1 /\ isFirestoreInitialized)

\* C29: however many times initializeFirestoreSync is called (from initApp
\* and from the deferred start-up timer, in either order), at most one change
\* listener is registered with the store, so each change of the collection
\* calls the callback, which replaces the cache and refreshes the display,
\* exactly once.
C29_AtMostOneListener ==
    /\ []OneListener
    /\ [][store' # store => Len(snapshots') = Len(snapshots) + 1]_vars

\* both callers have run, and the cache shows a record added afterwards
C29_Witness ==
    /\ started = {"initApp", "timer"}
    /\ listeners = 1
    /\ applied.op = "add" /\ applied.outcome = "accepted"
    /\ snapshots = << >>
    /\ ingredientsCache = Snapshot(store)
    /\ Len(ingredientsCache) = 2

-----------------------------------------------------------------------------

(* Claims about the service worker, checked under WorkerSpec *)

\* whenever the network request resolved, the page received that very
\* network response
NetworkResponseDelivered ==
    \A i \in 1..Len(responses) :
        responses[i].network = "resolved" =>
            /\ responses[i].served = "network"
            /\ responses[i].delivered =
                   << Response(responses[i].id, responses[i].ok) >>

\* a response of a fetch is in a cache, or about to be put there, only if
\* it is ok
CachedOnlyIfOk ==
    /\ \A name \in DOMAIN cacheStorage :
          \A request \in DOMAIN cacheStorage[name] :
              cacheStorage[name][request].ok
    /\ \A f \in fetching :
          f.stage = "put" =>
              \E i \in 1..Len(responses) :
                  /\ responses[i].id = f.id
                  /\ responses[i].network = "resolved"
                  /\ responses[i].ok

\* a not-ok network response is never written: no cache holds the response
\* of a fetch whose answer was not ok
NotOkNeverCached ==
    \A i \in 1..Len(responses) :
        (responses[i].network = "resolved" /\ ~responses[i].ok) =>
            /\ \A name \in DOMAIN cacheStorage :
                  \A request \in DOMAIN cacheStorage[name] :
                      cacheStorage[name][request].id # responses[i].id
            /\ \A f \in fetching : f.id # responses[i].id

\* a cached entry was served only for a network request that rejected
CacheServedOnlyOnRejection ==
    \A i \in 1..Len(responses) :
        (responses[i].served = "cache"
            \/ (responses[i].delivered # << >>
                /\ responses[i].delivered[1].id # responses[i].id)) =>
            responses[i].network = "rejected"

\* once activation completed, no cache of another name exists
OnlyCurrentCacheAfterActivation ==
    workerState = "activated" => DOMAIN cacheStorage \subseteq {CACHE_NAME}

\* C30: the fetch handler is network-first: whenever the network request
\* resolves the page receives the network response, never a cached one, and
\* the response is written to the cache only if it is ok; the cached entry is
\* served only when the network request rejects; and once activation has
\* completed no cache with a name other than CACHE_NAME exists.
C30_NetworkFirst ==
    /\ NetworkResponseDelivered
    /\ CachedOnlyIfOk
    /\ NotOkNeverCached
    /\ CacheServedOnlyOnRejection
    /\ OnlyCurrentCacheAfterActivation

\* after activation the old cache is gone; a fetch resolved ok and was cached,
\* another resolved not ok and was delivered uncached, and a third rejected
\* and was served the entry the first one cached
C30_Witness ==
    /\ workerState = "activated"
    /\ OldCacheName \notin DOMAIN cacheStorage
    /\ Len(responses) = 3
    /\ responses[1].network = "resolved" /\ responses[1].ok
    /\ responses[2].network = "resolved" /\ ~responses[2].ok
    /\ responses[2].delivered = << Response(responses[2].id, FALSE) >>
    /\ responses[3].network = "rejected"
    /\ responses[3].request = responses[1].request
    /\ responses[3].delivered = << Response(responses[1].id, TRUE) >>
    /\ cacheStorage[CACHE_NAME][responses[1].request] =
           Response(responses[1].id, TRUE)

====
